---- MODULE Spec2Model ----
(***************************************************************************)
(* TalentFlow mock backend: the Dexie store (src/src/lib/db.ts) and the    *)
(* MirageJS route handlers (src/src/mirage/server.ts).                     *)
(*                                                                         *)
(* Every handler is an async function.  A request is a record req[r]; its  *)
(* pc names the await it is suspended at, and one action executes that     *)
(* awaited store operation together with the synchronous code that runs    *)
(* up to the next await.  Math.random() does not depend on the store, so   *)
(* the outcome of the failure coin is an input of the request (field       *)
(* coin) that the handler consults where the code calls Math.random().     *)
(***************************************************************************)
EXTENDS Integers, Sequences, FiniteSets, TLC

VARIABLES
  jobs,         \* db.jobs: id -> Job
  candidates,   \* db.candidates: id -> Candidate
  timelines,    \* db.timelines: sequence of events, the ++id is the index
  assessments,  \* db.assessments: id -> Assessment
  assessmentResponses, \* db.assessmentResponses: sequence, the ++id is the index
  seeded,       \* db.meta 'seeded'
  now,          \* Date.now()
  txOwner,      \* the request whose rw transaction on db.jobs is open, or 0
  req,          \* the requests: slot -> handler state
  issued,       \* the number of requests issued so far
  resp,         \* the Jobs page: the response it displays (resp), or <<>>
  calls,        \* the Jobs page: slot -> the call of the page awaiting its fetch
  query         \* the Jobs page: the query of the list (query), or <<>>

vars == <<jobs, candidates, timelines, assessments, assessmentResponses, seeded, now,
          txOwner, req, issued, resp, calls, query>>
tables == <<jobs, candidates, timelines, assessments, assessmentResponses, seeded>>
env == <<now, issued>>
view == <<resp, calls, query>>

(***************************************************************************)
(* Bounds                                                                  *)
(***************************************************************************)
\* jobs the seed writes (25 in ensureSeed)
SeedJobs == 3
\* candidates the seed writes (1000 in ensureSeed)
SeedCands == 1
\* requests issued in one behaviour, and requests in flight at once
MaxReq == 2
\* ticks of the clock in one behaviour
MaxNow == 1
\* hops of a seeded candidate's timeline (1..4 in ensureSeed)
MaxHops == 1
\* tags of TAGS the seed draws a job's tags from (all 8 in ensureSeed)
MaxTags == 1
\* stages of STAGES the seed draws from (all 6 in ensureSeed)
MaxStages == 2
\* milliseconds a seeded job is created before the seed's now, at most (30
\* days in ensureSeed)
MaxJobAge == 0
\* milliseconds a seeded candidate is created before the seed's now, at most
\* (60 days in ensureSeed)
MaxCandAge == 0
\* length of the arrays and the pages given to paginate
MaxItems == 4

Req == DOMAIN req

(***************************************************************************)
(* Values                                                                  *)
(***************************************************************************)
TAGS == <<"remote", "hybrid", "onsite", "full-time", "contract", "urgent", "junior", "senior">>
STAGES == <<"applied", "screen", "tech", "offer", "hired", "rejected">>

\* JavaScript truthiness of a string-valued body field
Truthy(s) == s # ""

\* {...a, ...b}
Spread(a, b) ==
  [f \in (DOMAIN a) \cup (DOMAIN b) |-> IF f \in DOMAIN b THEN b[f] ELSE a[f]]

\* body.f, where a field the body does not name reads as the empty string
\* (undefined and "" are both falsy, and neither equals a stored slug or stage
\* by accident only for "": the callers test Truthy first)
Field(b, f) == IF f \in DOMAIN b THEN b[f] ELSE ""

Max(a, b) == IF a > b THEN a ELSE b
Min(a, b) == IF a < b THEN a ELSE b

\* the characters String.prototype.trim removes (WhiteSpace and LineTerminator
\* of ECMAScript) among those a string of this module can hold: U+0009 tab,
\* U+000A line feed, U+000B vertical tab, U+000C form feed, U+000D carriage
\* return, U+0020 space, U+00A0 no-break space, U+1680 ogham space mark and
\* U+FEFF byte order mark
IsSpace(c) ==
  c \in {"\t", "\n", "", "\f", "\r", " ", " ", " ", "﻿"}

RECURSIVE TrimStart(_)
TrimStart(s) ==
  IF Len(s) > 0 /\ IsSpace(SubSeq(s, 1, 1)) THEN TrimStart(SubSeq(s, 2, Len(s)))
  ELSE s

RECURSIVE TrimEnd(_)
TrimEnd(s) ==
  IF Len(s) > 0 /\ IsSpace(SubSeq(s, Len(s), Len(s)))
  THEN TrimEnd(SubSeq(s, 1, Len(s) - 1))
  ELSE s

\* s.trim(): the text without its leading and trailing white space
Trim(s) == TrimEnd(TrimStart(s))

(***************************************************************************)
(* Array helpers                                                           *)
(***************************************************************************)
\* a.order - b.order, ties by primary key (the index order of Dexie)
OrderBefore(a, b) == a.order < b.order \/ (a.order = b.order /\ a.id < b.id)

RECURSIVE SortByOrder(_)
SortByOrder(S) ==
  IF S = {} THEN <<>>
  ELSE LET m == CHOOSE x \in S : \A y \in S : x = y \/ OrderBefore(x, y)
       IN  <<m>> \o SortByOrder(S \ {m})

\* db.jobs.orderBy('order').toArray(), kept to the fields the handlers read
OrderedJobs(t) == SortByOrder({[id |-> t[i].id, order |-> t[i].order] : i \in DOMAIN t})

RECURSIVE Without(_, _)
Without(s, id) ==
  IF s = <<>> THEN <<>>
  ELSE IF Head(s).id = id THEN Without(Tail(s), id)
       ELSE <<Head(s)>> \o Without(Tail(s), id)

\* (a variant that inserts after the index instead of at it)
SpliceStart_After(len, start) ==
  IF start = <<>> THEN 0
  ELSE IF start[1] < 0 THEN Max(len + start[1], 0)
       ELSE Min(start[1] + 1, len)

\* the start index Array.prototype.splice uses: a missing start is 0, a
\* negative one counts from the end, and the result is clamped to [0, len]
SpliceStart(len, start) ==
  IF start = <<>> THEN 0
  ELSE IF start[1] < 0 THEN Max(len + start[1], 0)
       ELSE Min(start[1], len)

\* others.splice(start, 0, item)
Splice(s, start, item) ==
  LET k == SpliceStart(Len(s), start)
  IN  SubSeq(s, 1, k) \o <<item>> \o SubSeq(s, k + 1, Len(s))

\* the index Array.prototype.slice uses for an integer argument: a negative
\* one counts from the end, and the result is clamped to [0, len]
SliceIndex(len, i) == IF i < 0 THEN Max(len + i, 0) ELSE Min(i, len)

\* items.slice(start, end)
Slice(s, start, end) ==
  SubSeq(s, SliceIndex(Len(s), start) + 1, SliceIndex(Len(s), end))

\* (a variant that rounds the number of pages down)
Pages_Floor(total, pageSize) ==
  IF pageSize = 0 THEN (IF total = 0 THEN "NaN" ELSE "Infinity")
  ELSE IF pageSize > 0 THEN Max(1, total \div pageSize)
  ELSE Max(1, 0 - (total \div (0 - pageSize)))

\* Math.max(1, Math.ceil(total / pageSize)); a division by zero gives
\* Infinity, or NaN for 0 / 0, and Math.max(1, NaN) is NaN
Pages(total, pageSize) ==
  IF pageSize = 0 THEN (IF total = 0 THEN "NaN" ELSE "Infinity")
  ELSE IF pageSize > 0 THEN Max(1, (total + pageSize - 1) \div pageSize)
  ELSE Max(1, 0 - (total \div (0 - pageSize)))

\* (a variant that starts one page too far)
PageStart_Next(page, pageSize) == page * pageSize

\* const start = (page - 1) * pageSize
PageStart(page, pageSize) == (page - 1) * pageSize

\* paginate(items, page, pageSize)
paginate(items, page, pageSize) ==
  LET start == PageStart(page, pageSize)
  IN  [data |-> Slice(items, start, start + pageSize),
       page |-> page, pageSize |-> pageSize,
       total |-> Len(items), pages |-> Pages(Len(items), pageSize)]

(***************************************************************************)
(* The list routes' helpers                                                *)
(***************************************************************************)
\* String.prototype.toLowerCase and String.prototype.includes (server.ts
\* lines 22 and 39) work on the UTF-16 code units of a text. The lower-case
\* form of a character may be a character no string of this module holds
\* (U+0181 becomes U+0253), so a lowered text is the sequence of its code
\* units. A string of the module holds the characters U+0001..U+007F without
\* U+0060, and of every row hh of the Basic Multilingual Plane, the
\* surrogates apart, the characters U+hh80..U+hhFF.
\* the characters U+0001..U+005F and U+0061..U+007F, in the order of their codes
BasicLatin ==
  <<"\t\n\f\r !\"#$%&'()*+,-./0123456789:;<=>?@ABCDEFGHIJKLMNOPQRSTUVWXYZ[\\]^_",
    "abcdefghijklmnopqrstuvwxyz{|}~">>

\* the characters U+hh80..U+hhFF, one string for each row hh = 00..D7, E0..FF
HighHalves ==
  <<" ¡¢£¤¥¦§¨©ª«¬­®¯°±²³´µ¶·¸¹º»¼½¾¿ÀÁÂÃÄÅÆÇÈÉÊËÌÍÎÏÐÑÒÓÔÕÖ×ØÙÚÛÜÝÞßàáâãäåæçèéêëìíîïðñòóôõö÷øùúûüýþÿ",
    "ƀƁƂƃƄƅƆƇƈƉƊƋƌƍƎƏƐƑƒƓƔƕƖƗƘƙƚƛƜƝƞƟƠơƢƣƤƥƦƧƨƩƪƫƬƭƮƯưƱƲƳƴƵƶƷƸƹƺƻƼƽƾƿǀǁǂǃǄǅǆǇǈǉǊǋǌǍǎǏǐǑǒǓǔǕǖǗǘǙǚǛǜǝǞǟǠǡǢǣǤǥǦǧǨǩǪǫǬǭǮǯǰǱǲǳǴǵǶǷǸǹǺǻǼǽǾǿ",
    "ʀʁʂʃʄʅʆʇʈʉʊʋʌʍʎʏʐʑʒʓʔʕʖʗʘʙʚʛʜʝʞʟʠʡʢʣʤʥʦʧʨʩʪʫʬʭʮʯʰʱʲʳʴʵʶʷʸʹʺʻʼʽʾʿˀˁ˂˃˄˅ˆˇˈˉˊˋˌˍˎˏːˑ˒˓˔˕˖˗˘˙˚˛˜˝˞˟ˠˡˢˣˤ˥˦˧˨˩˪˫ˬ˭ˮ˯˰˱˲˳˴˵˶˷˸˹˺˻˼˽˾˿",
    "΀΁΂΃΄΅Ά·ΈΉΊ΋Ό΍ΎΏΐΑΒΓΔΕΖΗΘΙΚΛΜΝΞΟΠΡ΢ΣΤΥΦΧΨΩΪΫάέήίΰαβγδεζηθικλμνξοπρςστυφχψωϊϋόύώϏϐϑϒϓϔϕϖϗϘϙϚϛϜϝϞϟϠϡϢϣϤϥϦϧϨϩϪϫϬϭϮϯϰϱϲϳϴϵ϶ϷϸϹϺϻϼϽϾϿ",
    "Ҁҁ҂҃҄҅҆҇҈҉ҊҋҌҍҎҏҐґҒғҔҕҖҗҘҙҚқҜҝҞҟҠҡҢңҤҥҦҧҨҩҪҫҬҭҮүҰұҲҳҴҵҶҷҸҹҺһҼҽҾҿӀӁӂӃӄӅӆӇӈӉӊӋӌӍӎӏӐӑӒӓӔӕӖӗӘәӚӛӜӝӞӟӠӡӢӣӤӥӦӧӨөӪӫӬӭӮӯӰӱӲӳӴӵӶӷӸӹӺӻӼӽӾӿ",
    "րցւփքօֆևֈ։֊֋֌֍֎֏֐ְֱֲֳִֵֶַָֹֺֻּֽ֑֖֛֢֣֤֥֦֧֪֚֭֮֒֓֔֕֗֘֙֜֝֞֟֠֡֨֩֫֬֯־ֿ׀ׁׂ׃ׅׄ׆ׇ׈׉׊׋׌׍׎׏אבגדהוזחטיךכלםמןנסעףפץצקרשת׫׬׭׮ׯװױײ׳״׵׶׷׸׹׺׻׼׽׾׿",
    "ڀځڂڃڄڅچڇڈډڊڋڌڍڎڏڐڑڒړڔڕږڗژڙښڛڜڝڞڟڠڡڢڣڤڥڦڧڨکڪګڬڭڮگڰڱڲڳڴڵڶڷڸڹںڻڼڽھڿۀہۂۃۄۅۆۇۈۉۊۋیۍێۏېۑےۓ۔ەۖۗۘۙۚۛۜ۝۞ۣ۟۠ۡۢۤۥۦۧۨ۩۪ۭ۫۬ۮۯ۰۱۲۳۴۵۶۷۸۹ۺۻۼ۽۾ۿ",
    "ހށނރބޅކއވމފދތލގޏސޑޒޓޔޕޖޗޘޙޚޛޜޝޞޟޠޡޢޣޤޥަާިީުޫެޭޮޯްޱ޲޳޴޵޶޷޸޹޺޻޼޽޾޿߀߁߂߃߄߅߆߇߈߉ߊߋߌߍߎߏߐߑߒߓߔߕߖߗߘߙߚߛߜߝߞߟߠߡߢߣߤߥߦߧߨߩߪ߲߫߬߭߮߯߰߱߳ߴߵ߶߷߸߹ߺ߻߼߽߾߿",
    "ࢀࢁࢂࢃࢄࢅࢆࢇ࢈ࢉࢊࢋࢌࢍࢎ࢏࢐࢑࢒࢓࢔࢕࢖࢙࢚࢛ࢗ࢘࢜࢝࢞࢟ࢠࢡࢢࢣࢤࢥࢦࢧࢨࢩࢪࢫࢬࢭࢮࢯࢰࢱࢲࢳࢴࢵࢶࢷࢸࢹࢺࢻࢼࢽࢾࢿࣀࣁࣂࣃࣄࣅࣆࣇࣈࣉ࣏࣐࣑࣒࣓࣊࣋࣌࣍࣎ࣔࣕࣖࣗࣘࣙࣚࣛࣜࣝࣞࣟ࣠࣡࣢ࣰࣱࣲࣣࣦࣩ࣭࣮࣯ࣶࣹࣺࣤࣥࣧࣨ࣪࣫࣬ࣳࣴࣵࣷࣸࣻࣼࣽࣾࣿ",
    "ঀঁংঃ঄অআইঈউঊঋঌ঍঎এঐ঑঒ওঔকখগঘঙচছজঝঞটঠডঢণতথদধন঩পফবভমযর঱ল঳঴঵শষসহ঺঻়ঽািীুূৃৄ৅৆েৈ৉৊োৌ্ৎ৏৐৑৒৓৔৕৖ৗ৘৙৚৛ড়ঢ়৞য়ৠৡৢৣ৤৥০১২৩৪৫৬৭৮৯ৰৱ৲৳৴৵৶৷৸৹৺৻ৼ৽৾৿",
    "઀ઁંઃ઄અઆઇઈઉઊઋઌઍ઎એઐઑ઒ઓઔકખગઘઙચછજઝઞટઠડઢણતથદધન઩પફબભમયર઱લળ઴વશષસહ઺઻઼ઽાિીુૂૃૄૅ૆ેૈૉ૊ોૌ્૎૏ૐ૑૒૓૔૕૖૗૘૙૚૛૜૝૞૟ૠૡૢૣ૤૥૦૧૨૩૪૫૬૭૮૯૰૱૲૳૴૵૶૷૸ૹૺૻૼ૽૾૿",
    "஀஁ஂஃ஄அஆஇஈஉஊ஋஌஍எஏஐ஑ஒஓஔக஖஗஘ஙச஛ஜ஝ஞட஠஡஢ணத஥஦஧நனப஫஬஭மயரறலளழவஶஷஸஹ஺஻஼஽ாிீுூ௃௄௅ெேை௉ொோௌ்௎௏ௐ௑௒௓௔௕௖ௗ௘௙௚௛௜௝௞௟௠௡௢௣௤௥௦௧௨௩௪௫௬௭௮௯௰௱௲௳௴௵௶௷௸௹௺௻௼௽௾௿",
    "ಀಁಂಃ಄ಅಆಇಈಉಊಋಌ಍ಎಏಐ಑ಒಓಔಕಖಗಘಙಚಛಜಝಞಟಠಡಢಣತಥದಧನ಩ಪಫಬಭಮಯರಱಲಳ಴ವಶಷಸಹ಺಻಼ಽಾಿೀುೂೃೄ೅ೆೇೈ೉ೊೋೌ್೎೏೐೑೒೓೔ೕೖ೗೘೙೚೛೜ೝೞ೟ೠೡೢೣ೤೥೦೧೨೩೪೫೬೭೮೯೰ೱೲೳ೴೵೶೷೸೹೺೻೼೽೾೿",
    "඀ඁංඃ඄අආඇඈඉඊඋඌඍඎඏඐඑඒඓඔඕඖ඗඘඙කඛගඝඞඟචඡජඣඤඥඦටඨඩඪණඬතථදධන඲ඳපඵබභමඹයර඼ල඾඿වශෂසහළෆ෇෈෉්෋෌෍෎ාැෑිීු෕ූ෗ෘෙේෛොෝෞෟ෠෡෢෣෤෥෦෧෨෩෪෫෬෭෮෯෰෱ෲෳ෴෵෶෷෸෹෺෻෼෽෾෿",
    "຀ກຂ຃ຄ຅ຆງຈຉຊ຋ຌຍຎຏຐຑຒຓດຕຖທຘນບປຜຝພຟຠມຢຣ຤ລ຦ວຨຩສຫຬອຮຯະັາຳິີຶື຺ຸູົຼຽ຾຿ເແໂໃໄ໅ໆ໇່້໊໋໌ໍ໎໏໐໑໒໓໔໕໖໗໘໙໚໛ໜໝໞໟ໠໡໢໣໤໥໦໧໨໩໪໫໬໭໮໯໰໱໲໳໴໵໶໷໸໹໺໻໼໽໾໿",
    "྄ཱྀྀྂྃ྅྆྇ྈྉྊྋྌྍྎྏྐྑྒྒྷྔྕྖྗ྘ྙྚྛྜྜྷྞྟྠྡྡྷྣྤྥྦྦྷྨྩྪྫྫྷྭྮྯྰྱྲླྴྵྶྷྸྐྵྺྻྼ྽྾྿࿀࿁࿂࿃࿄࿅࿆࿇࿈࿉࿊࿋࿌࿍࿎࿏࿐࿑࿒࿓࿔࿕࿖࿗࿘࿙࿚࿛࿜࿝࿞࿟࿠࿡࿢࿣࿤࿥࿦࿧࿨࿩࿪࿫࿬࿭࿮࿯࿰࿱࿲࿳࿴࿵࿶࿷࿸࿹࿺࿻࿼࿽࿾࿿",
    "ႀႁႂႃႄႅႆႇႈႉႊႋႌႍႎႏ႐႑႒႓႔႕႖႗႘႙ႚႛႜႝ႞႟ႠႡႢႣႤႥႦႧႨႩႪႫႬႭႮႯႰႱႲႳႴႵႶႷႸႹႺႻႼႽႾႿჀჁჂჃჄჅ჆Ⴧ჈჉჊჋჌Ⴭ჎჏აბგდევზთიკლმნოპჟრსტუფქღყშჩცძწჭხჯჰჱჲჳჴჵჶჷჸჹჺ჻ჼჽჾჿ",
    "ᆀᆁᆂᆃᆄᆅᆆᆇᆈᆉᆊᆋᆌᆍᆎᆏᆐᆑᆒᆓᆔᆕᆖᆗᆘᆙᆚᆛᆜᆝᆞᆟᆠᆡᆢᆣᆤᆥᆦᆧᆨᆩᆪᆫᆬᆭᆮᆯᆰᆱᆲᆳᆴᆵᆶᆷᆸᆹᆺᆻᆼᆽᆾᆿᇀᇁᇂᇃᇄᇅᇆᇇᇈᇉᇊᇋᇌᇍᇎᇏᇐᇑᇒᇓᇔᇕᇖᇗᇘᇙᇚᇛᇜᇝᇞᇟᇠᇡᇢᇣᇤᇥᇦᇧᇨᇩᇪᇫᇬᇭᇮᇯᇰᇱᇲᇳᇴᇵᇶᇷᇸᇹᇺᇻᇼᇽᇾᇿ",
    "ኀኁኂኃኄኅኆኇኈ኉ኊኋኌኍ኎኏ነኑኒናኔንኖኗኘኙኚኛኜኝኞኟአኡኢኣኤእኦኧከኩኪካኬክኮኯኰ኱ኲኳኴኵ኶኷ኸኹኺኻኼኽኾ኿ዀ዁ዂዃዄዅ዆዇ወዉዊዋዌውዎዏዐዑዒዓዔዕዖ዗ዘዙዚዛዜዝዞዟዠዡዢዣዤዥዦዧየዩዪያዬይዮዯደዱዲዳዴድዶዷዸዹዺዻዼዽዾዿ",
    "ᎀᎁᎂᎃᎄᎅᎆᎇᎈᎉᎊᎋᎌᎍᎎᎏ᎐᎑᎒᎓᎔᎕᎖᎗᎘᎙᎚᎛᎜᎝᎞᎟ᎠᎡᎢᎣᎤᎥᎦᎧᎨᎩᎪᎫᎬᎭᎮᎯᎰᎱᎲᎳᎴᎵᎶᎷᎸᎹᎺᎻᎼᎽᎾᎿᏀᏁᏂᏃᏄᏅᏆᏇᏈᏉᏊᏋᏌᏍᏎᏏᏐᏑᏒᏓᏔᏕᏖᏗᏘᏙᏚᏛᏜᏝᏞᏟᏠᏡᏢᏣᏤᏥᏦᏧᏨᏩᏪᏫᏬᏭᏮᏯᏰᏱᏲᏳᏴᏵ᏶᏷ᏸᏹᏺᏻᏼᏽ᏾᏿",
    "ᒀᒁᒂᒃᒄᒅᒆᒇᒈᒉᒊᒋᒌᒍᒎᒏᒐᒑᒒᒓᒔᒕᒖᒗᒘᒙᒚᒛᒜᒝᒞᒟᒠᒡᒢᒣᒤᒥᒦᒧᒨᒩᒪᒫᒬᒭᒮᒯᒰᒱᒲᒳᒴᒵᒶᒷᒸᒹᒺᒻᒼᒽᒾᒿᓀᓁᓂᓃᓄᓅᓆᓇᓈᓉᓊᓋᓌᓍᓎᓏᓐᓑᓒᓓᓔᓕᓖᓗᓘᓙᓚᓛᓜᓝᓞᓟᓠᓡᓢᓣᓤᓥᓦᓧᓨᓩᓪᓫᓬᓭᓮᓯᓰᓱᓲᓳᓴᓵᓶᓷᓸᓹᓺᓻᓼᓽᓾᓿ",
    "ᖀᖁᖂᖃᖄᖅᖆᖇᖈᖉᖊᖋᖌᖍᖎᖏᖐᖑᖒᖓᖔᖕᖖᖗᖘᖙᖚᖛᖜᖝᖞᖟᖠᖡᖢᖣᖤᖥᖦᖧᖨᖩᖪᖫᖬᖭᖮᖯᖰᖱᖲᖳᖴᖵᖶᖷᖸᖹᖺᖻᖼᖽᖾᖿᗀᗁᗂᗃᗄᗅᗆᗇᗈᗉᗊᗋᗌᗍᗎᗏᗐᗑᗒᗓᗔᗕᗖᗗᗘᗙᗚᗛᗜᗝᗞᗟᗠᗡᗢᗣᗤᗥᗦᗧᗨᗩᗪᗫᗬᗭᗮᗯᗰᗱᗲᗳᗴᗵᗶᗷᗸᗹᗺᗻᗼᗽᗾᗿ",
    " ᚁᚂᚃᚄᚅᚆᚇᚈᚉᚊᚋᚌᚍᚎᚏᚐᚑᚒᚓᚔᚕᚖᚗᚘᚙᚚ᚛᚜᚝᚞᚟ᚠᚡᚢᚣᚤᚥᚦᚧᚨᚩᚪᚫᚬᚭᚮᚯᚰᚱᚲᚳᚴᚵᚶᚷᚸᚹᚺᚻᚼᚽᚾᚿᛀᛁᛂᛃᛄᛅᛆᛇᛈᛉᛊᛋᛌᛍᛎᛏᛐᛑᛒᛓᛔᛕᛖᛗᛘᛙᛚᛛᛜᛝᛞᛟᛠᛡᛢᛣᛤᛥᛦᛧᛨᛩᛪ᛫᛬᛭ᛮᛯᛰᛱᛲᛳᛴᛵᛶᛷᛸ᛹᛺᛻᛼᛽᛾᛿",
    "កខគឃងចឆជឈញដឋឌឍណតថទធនបផពភមយរលវឝឞសហឡអឣឤឥឦឧឨឩឪឫឬឭឮឯឰឱឲឳ឴឵ាិីឹឺុូួើឿៀេែៃោៅំះៈ៉៊់៌៍៎៏័៑្៓។៕៖ៗ៘៙៚៛ៜ៝៞៟០១២៣៤៥៦៧៨៩៪៫៬៭៮៯៰៱៲៳៴៵៶៷៸៹៺៻៼៽៾៿",
    "ᢀᢁᢂᢃᢄᢅᢆᢇᢈᢉᢊᢋᢌᢍᢎᢏᢐᢑᢒᢓᢔᢕᢖᢗᢘᢙᢚᢛᢜᢝᢞᢟᢠᢡᢢᢣᢤᢥᢦᢧᢨᢩᢪ᢫᢬᢭᢮᢯ᢰᢱᢲᢳᢴᢵᢶᢷᢸᢹᢺᢻᢼᢽᢾᢿᣀᣁᣂᣃᣄᣅᣆᣇᣈᣉᣊᣋᣌᣍᣎᣏᣐᣑᣒᣓᣔᣕᣖᣗᣘᣙᣚᣛᣜᣝᣞᣟᣠᣡᣢᣣᣤᣥᣦᣧᣨᣩᣪᣫᣬᣭᣮᣯᣰᣱᣲᣳᣴᣵ᣶᣷᣸᣹᣺᣻᣼᣽᣾᣿",
    "ᦀᦁᦂᦃᦄᦅᦆᦇᦈᦉᦊᦋᦌᦍᦎᦏᦐᦑᦒᦓᦔᦕᦖᦗᦘᦙᦚᦛᦜᦝᦞᦟᦠᦡᦢᦣᦤᦥᦦᦧᦨᦩᦪᦫ᦬᦭᦮᦯ᦰᦱᦲᦳᦴᦵᦶᦷᦸᦹᦺᦻᦼᦽᦾᦿᧀᧁᧂᧃᧄᧅᧆᧇᧈᧉ᧊᧋᧌᧍᧎᧏᧐᧑᧒᧓᧔᧕᧖᧗᧘᧙᧚᧛᧜᧝᧞᧟᧠᧡᧢᧣᧤᧥᧦᧧᧨᧩᧪᧫᧬᧭᧮᧯᧰᧱᧲᧳᧴᧵᧶᧷᧸᧹᧺᧻᧼᧽᧾᧿",
    "᪀᪁᪂᪃᪄᪅᪆᪇᪈᪉᪊᪋᪌᪍᪎᪏᪐᪑᪒᪓᪔᪕᪖᪗᪘᪙᪚᪛᪜᪝᪞᪟᪠᪡᪢᪣᪤᪥᪦ᪧ᪨᪩᪪᪫᪬᪭᪮᪯᪵᪶᪷᪸᪹᪺᪽᪰᪱᪲᪳᪴᪻᪼᪾ᪿᫀ᫃᫄᫊᫁᫂᫅᫆᫇᫈᫉᫋ᫌᫍᫎ᫏᫐᫑᫒᫓᫔᫕᫖᫗᫘᫙᫚᫛᫜᫝᫞᫟᫠᫡᫢᫣᫤᫥᫦᫧᫨᫩᫪᫫᫬᫭᫮᫯᫰᫱᫲᫳᫴᫵᫶᫷᫸᫹᫺᫻᫼᫽᫾᫿",
    "ᮀᮁᮂᮃᮄᮅᮆᮇᮈᮉᮊᮋᮌᮍᮎᮏᮐᮑᮒᮓᮔᮕᮖᮗᮘᮙᮚᮛᮜᮝᮞᮟᮠᮡᮢᮣᮤᮥᮦᮧᮨᮩ᮪᮫ᮬᮭᮮᮯ᮰᮱᮲᮳᮴᮵᮶᮷᮸᮹ᮺᮻᮼᮽᮾᮿᯀᯁᯂᯃᯄᯅᯆᯇᯈᯉᯊᯋᯌᯍᯎᯏᯐᯑᯒᯓᯔᯕᯖᯗᯘᯙᯚᯛᯜᯝᯞᯟᯠᯡᯢᯣᯤᯥ᯦ᯧᯨᯩᯪᯫᯬᯭᯮᯯᯰᯱ᯲᯳᯴᯵᯶᯷᯸᯹᯺᯻᯼᯽᯾᯿",
    "ᲀᲁᲂᲃᲄᲅᲆᲇᲈᲉᲊ᲋᲌᲍᲎᲏ᲐᲑᲒᲓᲔᲕᲖᲗᲘᲙᲚᲛᲜᲝᲞᲟᲠᲡᲢᲣᲤᲥᲦᲧᲨᲩᲪᲫᲬᲭᲮᲯᲰᲱᲲᲳᲴᲵᲶᲷᲸᲹᲺ᲻᲼ᲽᲾᲿ᳀᳁᳂᳃᳄᳅᳆᳇᳈᳉᳊᳋᳌᳍᳎᳏᳐᳑᳒᳓᳔᳕᳖᳗᳘᳙᳜᳝᳞᳟᳚᳛᳠᳡᳢᳣᳤᳥᳦᳧᳨ᳩᳪᳫᳬ᳭ᳮᳯᳰᳱᳲᳳ᳴ᳵᳶ᳷᳸᳹ᳺ᳻᳼᳽᳾᳿",
    "ᶀᶁᶂᶃᶄᶅᶆᶇᶈᶉᶊᶋᶌᶍᶎᶏᶐᶑᶒᶓᶔᶕᶖᶗᶘᶙᶚᶛᶜᶝᶞᶟᶠᶡᶢᶣᶤᶥᶦᶧᶨᶩᶪᶫᶬᶭᶮᶯᶰᶱᶲᶳᶴᶵᶶᶷᶸᶹᶺᶻᶼᶽᶾᶿ᷐᷎᷺᷂᷊᷏᷹᷽᷿᷷᷸᷀᷁᷃᷄᷅᷆᷇᷈᷉᷋᷌᷑᷒ᷓᷔᷕᷖᷗᷘᷙᷚᷛᷜᷝᷞᷟᷠᷡᷢᷣᷤᷥᷦᷧᷨᷩᷪᷫᷬᷭᷮᷯᷰᷱᷲᷳᷴ᷵᷻᷾᷶᷼᷍",
    "ẀẁẂẃẄẅẆẇẈẉẊẋẌẍẎẏẐẑẒẓẔẕẖẗẘẙẚẛẜẝẞẟẠạẢảẤấẦầẨẩẪẫẬậẮắẰằẲẳẴẵẶặẸẹẺẻẼẽẾếỀềỂểỄễỆệỈỉỊịỌọỎỏỐốỒồỔổỖỗỘộỚớỜờỞởỠỡỢợỤụỦủỨứỪừỬửỮữỰựỲỳỴỵỶỷỸỹỺỻỼỽỾỿ",
    "ᾀᾁᾂᾃᾄᾅᾆᾇᾈᾉᾊᾋᾌᾍᾎᾏᾐᾑᾒᾓᾔᾕᾖᾗᾘᾙᾚᾛᾜᾝᾞᾟᾠᾡᾢᾣᾤᾥᾦᾧᾨᾩᾪᾫᾬᾭᾮᾯᾰᾱᾲᾳᾴ᾵ᾶᾷᾸᾹᾺΆᾼ᾽ι᾿῀῁ῂῃῄ῅ῆῇῈΈῊΉῌ῍῎῏ῐῑῒΐ῔῕ῖῗῘῙῚΊ῜῝῞῟ῠῡῢΰῤῥῦῧῨῩῪΎῬ῭΅`῰῱ῲῳῴ῵ῶῷῸΌῺΏῼ´῾῿",
    "₀₁₂₃₄₅₆₇₈₉₊₋₌₍₎₏ₐₑₒₓₔₕₖₗₘₙₚₛₜ₝₞₟₠₡₢₣₤₥₦₧₨₩₪₫€₭₮₯₰₱₲₳₴₵₶₷₸₹₺₻₼₽₾₿⃀⃁⃂⃃⃄⃅⃆⃇⃈⃉⃊⃋⃌⃍⃎⃏⃒⃓⃘⃙⃚⃐⃑⃔⃕⃖⃗⃛⃜⃝⃞⃟⃠⃡⃢⃣⃤⃥⃦⃪⃫⃨⃬⃭⃮⃯⃧⃩⃰⃱⃲⃳⃴⃵⃶⃷⃸⃹⃺⃻⃼⃽⃾⃿",
    "ↀↁↂↃↄↅↆↇↈ↉↊↋↌↍↎↏←↑→↓↔↕↖↗↘↙↚↛↜↝↞↟↠↡↢↣↤↥↦↧↨↩↪↫↬↭↮↯↰↱↲↳↴↵↶↷↸↹↺↻↼↽↾↿⇀⇁⇂⇃⇄⇅⇆⇇⇈⇉⇊⇋⇌⇍⇎⇏⇐⇑⇒⇓⇔⇕⇖⇗⇘⇙⇚⇛⇜⇝⇞⇟⇠⇡⇢⇣⇤⇥⇦⇧⇨⇩⇪⇫⇬⇭⇮⇯⇰⇱⇲⇳⇴⇵⇶⇷⇸⇹⇺⇻⇼⇽⇾⇿",
    "⊀⊁⊂⊃⊄⊅⊆⊇⊈⊉⊊⊋⊌⊍⊎⊏⊐⊑⊒⊓⊔⊕⊖⊗⊘⊙⊚⊛⊜⊝⊞⊟⊠⊡⊢⊣⊤⊥⊦⊧⊨⊩⊪⊫⊬⊭⊮⊯⊰⊱⊲⊳⊴⊵⊶⊷⊸⊹⊺⊻⊼⊽⊾⊿⋀⋁⋂⋃⋄⋅⋆⋇⋈⋉⋊⋋⋌⋍⋎⋏⋐⋑⋒⋓⋔⋕⋖⋗⋘⋙⋚⋛⋜⋝⋞⋟⋠⋡⋢⋣⋤⋥⋦⋧⋨⋩⋪⋫⋬⋭⋮⋯⋰⋱⋲⋳⋴⋵⋶⋷⋸⋹⋺⋻⋼⋽⋾⋿",
    "⎀⎁⎂⎃⎄⎅⎆⎇⎈⎉⎊⎋⎌⎍⎎⎏⎐⎑⎒⎓⎔⎕⎖⎗⎘⎙⎚⎛⎜⎝⎞⎟⎠⎡⎢⎣⎤⎥⎦⎧⎨⎩⎪⎫⎬⎭⎮⎯⎰⎱⎲⎳⎴⎵⎶⎷⎸⎹⎺⎻⎼⎽⎾⎿⏀⏁⏂⏃⏄⏅⏆⏇⏈⏉⏊⏋⏌⏍⏎⏏⏐⏑⏒⏓⏔⏕⏖⏗⏘⏙⏚⏛⏜⏝⏞⏟⏠⏡⏢⏣⏤⏥⏦⏧⏨⏩⏪⏫⏬⏭⏮⏯⏰⏱⏲⏳⏴⏵⏶⏷⏸⏹⏺⏻⏼⏽⏾⏿",
    "⒀⒁⒂⒃⒄⒅⒆⒇⒈⒉⒊⒋⒌⒍⒎⒏⒐⒑⒒⒓⒔⒕⒖⒗⒘⒙⒚⒛⒜⒝⒞⒟⒠⒡⒢⒣⒤⒥⒦⒧⒨⒩⒪⒫⒬⒭⒮⒯⒰⒱⒲⒳⒴⒵ⒶⒷⒸⒹⒺⒻⒼⒽⒾⒿⓀⓁⓂⓃⓄⓅⓆⓇⓈⓉⓊⓋⓌⓍⓎⓏⓐⓑⓒⓓⓔⓕⓖⓗⓘⓙⓚⓛⓜⓝⓞⓟⓠⓡⓢⓣⓤⓥⓦⓧⓨⓩ⓪⓫⓬⓭⓮⓯⓰⓱⓲⓳⓴⓵⓶⓷⓸⓹⓺⓻⓼⓽⓾⓿",
    "▀▁▂▃▄▅▆▇█▉▊▋▌▍▎▏▐░▒▓▔▕▖▗▘▙▚▛▜▝▞▟■□▢▣▤▥▦▧▨▩▪▫▬▭▮▯▰▱▲△▴▵▶▷▸▹►▻▼▽▾▿◀◁◂◃◄◅◆◇◈◉◊○◌◍◎●◐◑◒◓◔◕◖◗◘◙◚◛◜◝◞◟◠◡◢◣◤◥◦◧◨◩◪◫◬◭◮◯◰◱◲◳◴◵◶◷◸◹◺◻◼◽◾◿",
    "⚀⚁⚂⚃⚄⚅⚆⚇⚈⚉⚊⚋⚌⚍⚎⚏⚐⚑⚒⚓⚔⚕⚖⚗⚘⚙⚚⚛⚜⚝⚞⚟⚠⚡⚢⚣⚤⚥⚦⚧⚨⚩⚪⚫⚬⚭⚮⚯⚰⚱⚲⚳⚴⚵⚶⚷⚸⚹⚺⚻⚼⚽⚾⚿⛀⛁⛂⛃⛄⛅⛆⛇⛈⛉⛊⛋⛌⛍⛎⛏⛐⛑⛒⛓⛔⛕⛖⛗⛘⛙⛚⛛⛜⛝⛞⛟⛠⛡⛢⛣⛤⛥⛦⛧⛨⛩⛪⛫⛬⛭⛮⛯⛰⛱⛲⛳⛴⛵⛶⛷⛸⛹⛺⛻⛼⛽⛾⛿",
    "➀➁➂➃➄➅➆➇➈➉➊➋➌➍➎➏➐➑➒➓➔➕➖➗➘➙➚➛➜➝➞➟➠➡➢➣➤➥➦➧➨➩➪➫➬➭➮➯➰➱➲➳➴➵➶➷➸➹➺➻➼➽➾➿⟀⟁⟂⟃⟄⟅⟆⟇⟈⟉⟊⟋⟌⟍⟎⟏⟐⟑⟒⟓⟔⟕⟖⟗⟘⟙⟚⟛⟜⟝⟞⟟⟠⟡⟢⟣⟤⟥⟦⟧⟨⟩⟪⟫⟬⟭⟮⟯⟰⟱⟲⟳⟴⟵⟶⟷⟸⟹⟺⟻⟼⟽⟾⟿",
    "⢀⢁⢂⢃⢄⢅⢆⢇⢈⢉⢊⢋⢌⢍⢎⢏⢐⢑⢒⢓⢔⢕⢖⢗⢘⢙⢚⢛⢜⢝⢞⢟⢠⢡⢢⢣⢤⢥⢦⢧⢨⢩⢪⢫⢬⢭⢮⢯⢰⢱⢲⢳⢴⢵⢶⢷⢸⢹⢺⢻⢼⢽⢾⢿⣀⣁⣂⣃⣄⣅⣆⣇⣈⣉⣊⣋⣌⣍⣎⣏⣐⣑⣒⣓⣔⣕⣖⣗⣘⣙⣚⣛⣜⣝⣞⣟⣠⣡⣢⣣⣤⣥⣦⣧⣨⣩⣪⣫⣬⣭⣮⣯⣰⣱⣲⣳⣴⣵⣶⣷⣸⣹⣺⣻⣼⣽⣾⣿",
    "⦀⦁⦂⦃⦄⦅⦆⦇⦈⦉⦊⦋⦌⦍⦎⦏⦐⦑⦒⦓⦔⦕⦖⦗⦘⦙⦚⦛⦜⦝⦞⦟⦠⦡⦢⦣⦤⦥⦦⦧⦨⦩⦪⦫⦬⦭⦮⦯⦰⦱⦲⦳⦴⦵⦶⦷⦸⦹⦺⦻⦼⦽⦾⦿⧀⧁⧂⧃⧄⧅⧆⧇⧈⧉⧊⧋⧌⧍⧎⧏⧐⧑⧒⧓⧔⧕⧖⧗⧘⧙⧚⧛⧜⧝⧞⧟⧠⧡⧢⧣⧤⧥⧦⧧⧨⧩⧪⧫⧬⧭⧮⧯⧰⧱⧲⧳⧴⧵⧶⧷⧸⧹⧺⧻⧼⧽⧾⧿",
    "⪀⪁⪂⪃⪄⪅⪆⪇⪈⪉⪊⪋⪌⪍⪎⪏⪐⪑⪒⪓⪔⪕⪖⪗⪘⪙⪚⪛⪜⪝⪞⪟⪠⪡⪢⪣⪤⪥⪦⪧⪨⪩⪪⪫⪬⪭⪮⪯⪰⪱⪲⪳⪴⪵⪶⪷⪸⪹⪺⪻⪼⪽⪾⪿⫀⫁⫂⫃⫄⫅⫆⫇⫈⫉⫊⫋⫌⫍⫎⫏⫐⫑⫒⫓⫔⫕⫖⫗⫘⫙⫚⫛⫝̸⫝⫞⫟⫠⫡⫢⫣⫤⫥⫦⫧⫨⫩⫪⫫⫬⫭⫮⫯⫰⫱⫲⫳⫴⫵⫶⫷⫸⫹⫺⫻⫼⫽⫾⫿",
    "⮀⮁⮂⮃⮄⮅⮆⮇⮈⮉⮊⮋⮌⮍⮎⮏⮐⮑⮒⮓⮔⮕⮖⮗⮘⮙⮚⮛⮜⮝⮞⮟⮠⮡⮢⮣⮤⮥⮦⮧⮨⮩⮪⮫⮬⮭⮮⮯⮰⮱⮲⮳⮴⮵⮶⮷⮸⮹⮺⮻⮼⮽⮾⮿⯀⯁⯂⯃⯄⯅⯆⯇⯈⯉⯊⯋⯌⯍⯎⯏⯐⯑⯒⯓⯔⯕⯖⯗⯘⯙⯚⯛⯜⯝⯞⯟⯠⯡⯢⯣⯤⯥⯦⯧⯨⯩⯪⯫⯬⯭⯮⯯⯰⯱⯲⯳⯴⯵⯶⯷⯸⯹⯺⯻⯼⯽⯾⯿",
    "ⲀⲁⲂⲃⲄⲅⲆⲇⲈⲉⲊⲋⲌⲍⲎⲏⲐⲑⲒⲓⲔⲕⲖⲗⲘⲙⲚⲛⲜⲝⲞⲟⲠⲡⲢⲣⲤⲥⲦⲧⲨⲩⲪⲫⲬⲭⲮⲯⲰⲱⲲⲳⲴⲵⲶⲷⲸⲹⲺⲻⲼⲽⲾⲿⳀⳁⳂⳃⳄⳅⳆⳇⳈⳉⳊⳋⳌⳍⳎⳏⳐⳑⳒⳓⳔⳕⳖⳗⳘⳙⳚⳛⳜⳝⳞⳟⳠⳡⳢⳣⳤ⳥⳦⳧⳨⳩⳪ⳫⳬⳭⳮ⳯⳰⳱Ⳳⳳ⳴⳵⳶⳷⳸⳹⳺⳻⳼⳽⳾⳿",
    "ⶀⶁⶂⶃⶄⶅⶆⶇⶈⶉⶊⶋⶌⶍⶎⶏⶐⶑⶒⶓⶔⶕⶖ⶗⶘⶙⶚⶛⶜⶝⶞⶟ⶠⶡⶢⶣⶤⶥⶦ⶧ⶨⶩⶪⶫⶬⶭⶮ⶯ⶰⶱⶲⶳⶴⶵⶶ⶷ⶸⶹⶺⶻⶼⶽⶾ⶿ⷀⷁⷂⷃⷄⷅⷆ⷇ⷈⷉⷊⷋⷌⷍⷎ⷏ⷐⷑⷒⷓⷔⷕⷖ⷗ⷘⷙⷚⷛⷜⷝⷞ⷟ⷠⷡⷢⷣⷤⷥⷦⷧⷨⷩⷪⷫⷬⷭⷮⷯⷰⷱⷲⷳⷴⷵⷶⷷⷸⷹⷺⷻⷼⷽⷾⷿ",
    "⺀⺁⺂⺃⺄⺅⺆⺇⺈⺉⺊⺋⺌⺍⺎⺏⺐⺑⺒⺓⺔⺕⺖⺗⺘⺙⺚⺛⺜⺝⺞⺟⺠⺡⺢⺣⺤⺥⺦⺧⺨⺩⺪⺫⺬⺭⺮⺯⺰⺱⺲⺳⺴⺵⺶⺷⺸⺹⺺⺻⺼⺽⺾⺿⻀⻁⻂⻃⻄⻅⻆⻇⻈⻉⻊⻋⻌⻍⻎⻏⻐⻑⻒⻓⻔⻕⻖⻗⻘⻙⻚⻛⻜⻝⻞⻟⻠⻡⻢⻣⻤⻥⻦⻧⻨⻩⻪⻫⻬⻭⻮⻯⻰⻱⻲⻳⻴⻵⻶⻷⻸⻹⻺⻻⻼⻽⻾⻿",
    "⾀⾁⾂⾃⾄⾅⾆⾇⾈⾉⾊⾋⾌⾍⾎⾏⾐⾑⾒⾓⾔⾕⾖⾗⾘⾙⾚⾛⾜⾝⾞⾟⾠⾡⾢⾣⾤⾥⾦⾧⾨⾩⾪⾫⾬⾭⾮⾯⾰⾱⾲⾳⾴⾵⾶⾷⾸⾹⾺⾻⾼⾽⾾⾿⿀⿁⿂⿃⿄⿅⿆⿇⿈⿉⿊⿋⿌⿍⿎⿏⿐⿑⿒⿓⿔⿕⿖⿗⿘⿙⿚⿛⿜⿝⿞⿟⿠⿡⿢⿣⿤⿥⿦⿧⿨⿩⿪⿫⿬⿭⿮⿯⿰⿱⿲⿳⿴⿵⿶⿷⿸⿹⿺⿻⿼⿽⿾⿿",
    "むめもゃやゅゆょよらりるれろゎわゐゑをんゔゕゖ゗゘゙゚゛゜ゝゞゟ゠ァアィイゥウェエォオカガキギクグケゲコゴサザシジスズセゼソゾタダチヂッツヅテデトドナニヌネノハバパヒビピフブプヘベペホボポマミムメモャヤュユョヨラリルレロヮワヰヱヲンヴヵヶヷヸヹヺ・ーヽヾヿ",
    "ㆀㆁㆂㆃㆄㆅㆆㆇㆈㆉㆊㆋㆌㆍㆎ㆏㆐㆑㆒㆓㆔㆕㆖㆗㆘㆙㆚㆛㆜㆝㆞㆟ㆠㆡㆢㆣㆤㆥㆦㆧㆨㆩㆪㆫㆬㆭㆮㆯㆰㆱㆲㆳㆴㆵㆶㆷㆸㆹㆺㆻㆼㆽㆾㆿ㇀㇁㇂㇃㇄㇅㇆㇇㇈㇉㇊㇋㇌㇍㇎㇏㇐㇑㇒㇓㇔㇕㇖㇗㇘㇙㇚㇛㇜㇝㇞㇟㇠㇡㇢㇣㇤㇥㇦㇧㇨㇩㇪㇫㇬㇭㇮㇯ㇰㇱㇲㇳㇴㇵㇶㇷㇸㇹㇺㇻㇼㇽㇾㇿ",
    "㊀㊁㊂㊃㊄㊅㊆㊇㊈㊉㊊㊋㊌㊍㊎㊏㊐㊑㊒㊓㊔㊕㊖㊗㊘㊙㊚㊛㊜㊝㊞㊟㊠㊡㊢㊣㊤㊥㊦㊧㊨㊩㊪㊫㊬㊭㊮㊯㊰㊱㊲㊳㊴㊵㊶㊷㊸㊹㊺㊻㊼㊽㊾㊿㋀㋁㋂㋃㋄㋅㋆㋇㋈㋉㋊㋋㋌㋍㋎㋏㋐㋑㋒㋓㋔㋕㋖㋗㋘㋙㋚㋛㋜㋝㋞㋟㋠㋡㋢㋣㋤㋥㋦㋧㋨㋩㋪㋫㋬㋭㋮㋯㋰㋱㋲㋳㋴㋵㋶㋷㋸㋹㋺㋻㋼㋽㋾㋿",
    "㎀㎁㎂㎃㎄㎅㎆㎇㎈㎉㎊㎋㎌㎍㎎㎏㎐㎑㎒㎓㎔㎕㎖㎗㎘㎙㎚㎛㎜㎝㎞㎟㎠㎡㎢㎣㎤㎥㎦㎧㎨㎩㎪㎫㎬㎭㎮㎯㎰㎱㎲㎳㎴㎵㎶㎷㎸㎹㎺㎻㎼㎽㎾㎿㏀㏁㏂㏃㏄㏅㏆㏇㏈㏉㏊㏋㏌㏍㏎㏏㏐㏑㏒㏓㏔㏕㏖㏗㏘㏙㏚㏛㏜㏝㏞㏟㏠㏡㏢㏣㏤㏥㏦㏧㏨㏩㏪㏫㏬㏭㏮㏯㏰㏱㏲㏳㏴㏵㏶㏷㏸㏹㏺㏻㏼㏽㏾㏿",
    "㒀㒁㒂㒃㒄㒅㒆㒇㒈㒉㒊㒋㒌㒍㒎㒏㒐㒑㒒㒓㒔㒕㒖㒗㒘㒙㒚㒛㒜㒝㒞㒟㒠㒡㒢㒣㒤㒥㒦㒧㒨㒩㒪㒫㒬㒭㒮㒯㒰㒱㒲㒳㒴㒵㒶㒷㒸㒹㒺㒻㒼㒽㒾㒿㓀㓁㓂㓃㓄㓅㓆㓇㓈㓉㓊㓋㓌㓍㓎㓏㓐㓑㓒㓓㓔㓕㓖㓗㓘㓙㓚㓛㓜㓝㓞㓟㓠㓡㓢㓣㓤㓥㓦㓧㓨㓩㓪㓫㓬㓭㓮㓯㓰㓱㓲㓳㓴㓵㓶㓷㓸㓹㓺㓻㓼㓽㓾㓿",
    "㖀㖁㖂㖃㖄㖅㖆㖇㖈㖉㖊㖋㖌㖍㖎㖏㖐㖑㖒㖓㖔㖕㖖㖗㖘㖙㖚㖛㖜㖝㖞㖟㖠㖡㖢㖣㖤㖥㖦㖧㖨㖩㖪㖫㖬㖭㖮㖯㖰㖱㖲㖳㖴㖵㖶㖷㖸㖹㖺㖻㖼㖽㖾㖿㗀㗁㗂㗃㗄㗅㗆㗇㗈㗉㗊㗋㗌㗍㗎㗏㗐㗑㗒㗓㗔㗕㗖㗗㗘㗙㗚㗛㗜㗝㗞㗟㗠㗡㗢㗣㗤㗥㗦㗧㗨㗩㗪㗫㗬㗭㗮㗯㗰㗱㗲㗳㗴㗵㗶㗷㗸㗹㗺㗻㗼㗽㗾㗿",
    "㚀㚁㚂㚃㚄㚅㚆㚇㚈㚉㚊㚋㚌㚍㚎㚏㚐㚑㚒㚓㚔㚕㚖㚗㚘㚙㚚㚛㚜㚝㚞㚟㚠㚡㚢㚣㚤㚥㚦㚧㚨㚩㚪㚫㚬㚭㚮㚯㚰㚱㚲㚳㚴㚵㚶㚷㚸㚹㚺㚻㚼㚽㚾㚿㛀㛁㛂㛃㛄㛅㛆㛇㛈㛉㛊㛋㛌㛍㛎㛏㛐㛑㛒㛓㛔㛕㛖㛗㛘㛙㛚㛛㛜㛝㛞㛟㛠㛡㛢㛣㛤㛥㛦㛧㛨㛩㛪㛫㛬㛭㛮㛯㛰㛱㛲㛳㛴㛵㛶㛷㛸㛹㛺㛻㛼㛽㛾㛿",
    "㞀㞁㞂㞃㞄㞅㞆㞇㞈㞉㞊㞋㞌㞍㞎㞏㞐㞑㞒㞓㞔㞕㞖㞗㞘㞙㞚㞛㞜㞝㞞㞟㞠㞡㞢㞣㞤㞥㞦㞧㞨㞩㞪㞫㞬㞭㞮㞯㞰㞱㞲㞳㞴㞵㞶㞷㞸㞹㞺㞻㞼㞽㞾㞿㟀㟁㟂㟃㟄㟅㟆㟇㟈㟉㟊㟋㟌㟍㟎㟏㟐㟑㟒㟓㟔㟕㟖㟗㟘㟙㟚㟛㟜㟝㟞㟟㟠㟡㟢㟣㟤㟥㟦㟧㟨㟩㟪㟫㟬㟭㟮㟯㟰㟱㟲㟳㟴㟵㟶㟷㟸㟹㟺㟻㟼㟽㟾㟿",
    "㢀㢁㢂㢃㢄㢅㢆㢇㢈㢉㢊㢋㢌㢍㢎㢏㢐㢑㢒㢓㢔㢕㢖㢗㢘㢙㢚㢛㢜㢝㢞㢟㢠㢡㢢㢣㢤㢥㢦㢧㢨㢩㢪㢫㢬㢭㢮㢯㢰㢱㢲㢳㢴㢵㢶㢷㢸㢹㢺㢻㢼㢽㢾㢿㣀㣁㣂㣃㣄㣅㣆㣇㣈㣉㣊㣋㣌㣍㣎㣏㣐㣑㣒㣓㣔㣕㣖㣗㣘㣙㣚㣛㣜㣝㣞㣟㣠㣡㣢㣣㣤㣥㣦㣧㣨㣩㣪㣫㣬㣭㣮㣯㣰㣱㣲㣳㣴㣵㣶㣷㣸㣹㣺㣻㣼㣽㣾㣿",
    "㦀㦁㦂㦃㦄㦅㦆㦇㦈㦉㦊㦋㦌㦍㦎㦏㦐㦑㦒㦓㦔㦕㦖㦗㦘㦙㦚㦛㦜㦝㦞㦟㦠㦡㦢㦣㦤㦥㦦㦧㦨㦩㦪㦫㦬㦭㦮㦯㦰㦱㦲㦳㦴㦵㦶㦷㦸㦹㦺㦻㦼㦽㦾㦿㧀㧁㧂㧃㧄㧅㧆㧇㧈㧉㧊㧋㧌㧍㧎㧏㧐㧑㧒㧓㧔㧕㧖㧗㧘㧙㧚㧛㧜㧝㧞㧟㧠㧡㧢㧣㧤㧥㧦㧧㧨㧩㧪㧫㧬㧭㧮㧯㧰㧱㧲㧳㧴㧵㧶㧷㧸㧹㧺㧻㧼㧽㧾㧿",
    "㪀㪁㪂㪃㪄㪅㪆㪇㪈㪉㪊㪋㪌㪍㪎㪏㪐㪑㪒㪓㪔㪕㪖㪗㪘㪙㪚㪛㪜㪝㪞㪟㪠㪡㪢㪣㪤㪥㪦㪧㪨㪩㪪㪫㪬㪭㪮㪯㪰㪱㪲㪳㪴㪵㪶㪷㪸㪹㪺㪻㪼㪽㪾㪿㫀㫁㫂㫃㫄㫅㫆㫇㫈㫉㫊㫋㫌㫍㫎㫏㫐㫑㫒㫓㫔㫕㫖㫗㫘㫙㫚㫛㫜㫝㫞㫟㫠㫡㫢㫣㫤㫥㫦㫧㫨㫩㫪㫫㫬㫭㫮㫯㫰㫱㫲㫳㫴㫵㫶㫷㫸㫹㫺㫻㫼㫽㫾㫿",
    "㮀㮁㮂㮃㮄㮅㮆㮇㮈㮉㮊㮋㮌㮍㮎㮏㮐㮑㮒㮓㮔㮕㮖㮗㮘㮙㮚㮛㮜㮝㮞㮟㮠㮡㮢㮣㮤㮥㮦㮧㮨㮩㮪㮫㮬㮭㮮㮯㮰㮱㮲㮳㮴㮵㮶㮷㮸㮹㮺㮻㮼㮽㮾㮿㯀㯁㯂㯃㯄㯅㯆㯇㯈㯉㯊㯋㯌㯍㯎㯏㯐㯑㯒㯓㯔㯕㯖㯗㯘㯙㯚㯛㯜㯝㯞㯟㯠㯡㯢㯣㯤㯥㯦㯧㯨㯩㯪㯫㯬㯭㯮㯯㯰㯱㯲㯳㯴㯵㯶㯷㯸㯹㯺㯻㯼㯽㯾㯿",
    "㲀㲁㲂㲃㲄㲅㲆㲇㲈㲉㲊㲋㲌㲍㲎㲏㲐㲑㲒㲓㲔㲕㲖㲗㲘㲙㲚㲛㲜㲝㲞㲟㲠㲡㲢㲣㲤㲥㲦㲧㲨㲩㲪㲫㲬㲭㲮㲯㲰㲱㲲㲳㲴㲵㲶㲷㲸㲹㲺㲻㲼㲽㲾㲿㳀㳁㳂㳃㳄㳅㳆㳇㳈㳉㳊㳋㳌㳍㳎㳏㳐㳑㳒㳓㳔㳕㳖㳗㳘㳙㳚㳛㳜㳝㳞㳟㳠㳡㳢㳣㳤㳥㳦㳧㳨㳩㳪㳫㳬㳭㳮㳯㳰㳱㳲㳳㳴㳵㳶㳷㳸㳹㳺㳻㳼㳽㳾㳿",
    "㶀㶁㶂㶃㶄㶅㶆㶇㶈㶉㶊㶋㶌㶍㶎㶏㶐㶑㶒㶓㶔㶕㶖㶗㶘㶙㶚㶛㶜㶝㶞㶟㶠㶡㶢㶣㶤㶥㶦㶧㶨㶩㶪㶫㶬㶭㶮㶯㶰㶱㶲㶳㶴㶵㶶㶷㶸㶹㶺㶻㶼㶽㶾㶿㷀㷁㷂㷃㷄㷅㷆㷇㷈㷉㷊㷋㷌㷍㷎㷏㷐㷑㷒㷓㷔㷕㷖㷗㷘㷙㷚㷛㷜㷝㷞㷟㷠㷡㷢㷣㷤㷥㷦㷧㷨㷩㷪㷫㷬㷭㷮㷯㷰㷱㷲㷳㷴㷵㷶㷷㷸㷹㷺㷻㷼㷽㷾㷿",
    "㺀㺁㺂㺃㺄㺅㺆㺇㺈㺉㺊㺋㺌㺍㺎㺏㺐㺑㺒㺓㺔㺕㺖㺗㺘㺙㺚㺛㺜㺝㺞㺟㺠㺡㺢㺣㺤㺥㺦㺧㺨㺩㺪㺫㺬㺭㺮㺯㺰㺱㺲㺳㺴㺵㺶㺷㺸㺹㺺㺻㺼㺽㺾㺿㻀㻁㻂㻃㻄㻅㻆㻇㻈㻉㻊㻋㻌㻍㻎㻏㻐㻑㻒㻓㻔㻕㻖㻗㻘㻙㻚㻛㻜㻝㻞㻟㻠㻡㻢㻣㻤㻥㻦㻧㻨㻩㻪㻫㻬㻭㻮㻯㻰㻱㻲㻳㻴㻵㻶㻷㻸㻹㻺㻻㻼㻽㻾㻿",
    "㾀㾁㾂㾃㾄㾅㾆㾇㾈㾉㾊㾋㾌㾍㾎㾏㾐㾑㾒㾓㾔㾕㾖㾗㾘㾙㾚㾛㾜㾝㾞㾟㾠㾡㾢㾣㾤㾥㾦㾧㾨㾩㾪㾫㾬㾭㾮㾯㾰㾱㾲㾳㾴㾵㾶㾷㾸㾹㾺㾻㾼㾽㾾㾿㿀㿁㿂㿃㿄㿅㿆㿇㿈㿉㿊㿋㿌㿍㿎㿏㿐㿑㿒㿓㿔㿕㿖㿗㿘㿙㿚㿛㿜㿝㿞㿟㿠㿡㿢㿣㿤㿥㿦㿧㿨㿩㿪㿫㿬㿭㿮㿯㿰㿱㿲㿳㿴㿵㿶㿷㿸㿹㿺㿻㿼㿽㿾㿿",
    "䂀䂁䂂䂃䂄䂅䂆䂇䂈䂉䂊䂋䂌䂍䂎䂏䂐䂑䂒䂓䂔䂕䂖䂗䂘䂙䂚䂛䂜䂝䂞䂟䂠䂡䂢䂣䂤䂥䂦䂧䂨䂩䂪䂫䂬䂭䂮䂯䂰䂱䂲䂳䂴䂵䂶䂷䂸䂹䂺䂻䂼䂽䂾䂿䃀䃁䃂䃃䃄䃅䃆䃇䃈䃉䃊䃋䃌䃍䃎䃏䃐䃑䃒䃓䃔䃕䃖䃗䃘䃙䃚䃛䃜䃝䃞䃟䃠䃡䃢䃣䃤䃥䃦䃧䃨䃩䃪䃫䃬䃭䃮䃯䃰䃱䃲䃳䃴䃵䃶䃷䃸䃹䃺䃻䃼䃽䃾䃿",
    "䆀䆁䆂䆃䆄䆅䆆䆇䆈䆉䆊䆋䆌䆍䆎䆏䆐䆑䆒䆓䆔䆕䆖䆗䆘䆙䆚䆛䆜䆝䆞䆟䆠䆡䆢䆣䆤䆥䆦䆧䆨䆩䆪䆫䆬䆭䆮䆯䆰䆱䆲䆳䆴䆵䆶䆷䆸䆹䆺䆻䆼䆽䆾䆿䇀䇁䇂䇃䇄䇅䇆䇇䇈䇉䇊䇋䇌䇍䇎䇏䇐䇑䇒䇓䇔䇕䇖䇗䇘䇙䇚䇛䇜䇝䇞䇟䇠䇡䇢䇣䇤䇥䇦䇧䇨䇩䇪䇫䇬䇭䇮䇯䇰䇱䇲䇳䇴䇵䇶䇷䇸䇹䇺䇻䇼䇽䇾䇿",
    "䊀䊁䊂䊃䊄䊅䊆䊇䊈䊉䊊䊋䊌䊍䊎䊏䊐䊑䊒䊓䊔䊕䊖䊗䊘䊙䊚䊛䊜䊝䊞䊟䊠䊡䊢䊣䊤䊥䊦䊧䊨䊩䊪䊫䊬䊭䊮䊯䊰䊱䊲䊳䊴䊵䊶䊷䊸䊹䊺䊻䊼䊽䊾䊿䋀䋁䋂䋃䋄䋅䋆䋇䋈䋉䋊䋋䋌䋍䋎䋏䋐䋑䋒䋓䋔䋕䋖䋗䋘䋙䋚䋛䋜䋝䋞䋟䋠䋡䋢䋣䋤䋥䋦䋧䋨䋩䋪䋫䋬䋭䋮䋯䋰䋱䋲䋳䋴䋵䋶䋷䋸䋹䋺䋻䋼䋽䋾䋿",
    "䎀䎁䎂䎃䎄䎅䎆䎇䎈䎉䎊䎋䎌䎍䎎䎏䎐䎑䎒䎓䎔䎕䎖䎗䎘䎙䎚䎛䎜䎝䎞䎟䎠䎡䎢䎣䎤䎥䎦䎧䎨䎩䎪䎫䎬䎭䎮䎯䎰䎱䎲䎳䎴䎵䎶䎷䎸䎹䎺䎻䎼䎽䎾䎿䏀䏁䏂䏃䏄䏅䏆䏇䏈䏉䏊䏋䏌䏍䏎䏏䏐䏑䏒䏓䏔䏕䏖䏗䏘䏙䏚䏛䏜䏝䏞䏟䏠䏡䏢䏣䏤䏥䏦䏧䏨䏩䏪䏫䏬䏭䏮䏯䏰䏱䏲䏳䏴䏵䏶䏷䏸䏹䏺䏻䏼䏽䏾䏿",
    "䒀䒁䒂䒃䒄䒅䒆䒇䒈䒉䒊䒋䒌䒍䒎䒏䒐䒑䒒䒓䒔䒕䒖䒗䒘䒙䒚䒛䒜䒝䒞䒟䒠䒡䒢䒣䒤䒥䒦䒧䒨䒩䒪䒫䒬䒭䒮䒯䒰䒱䒲䒳䒴䒵䒶䒷䒸䒹䒺䒻䒼䒽䒾䒿䓀䓁䓂䓃䓄䓅䓆䓇䓈䓉䓊䓋䓌䓍䓎䓏䓐䓑䓒䓓䓔䓕䓖䓗䓘䓙䓚䓛䓜䓝䓞䓟䓠䓡䓢䓣䓤䓥䓦䓧䓨䓩䓪䓫䓬䓭䓮䓯䓰䓱䓲䓳䓴䓵䓶䓷䓸䓹䓺䓻䓼䓽䓾䓿",
    "䖀䖁䖂䖃䖄䖅䖆䖇䖈䖉䖊䖋䖌䖍䖎䖏䖐䖑䖒䖓䖔䖕䖖䖗䖘䖙䖚䖛䖜䖝䖞䖟䖠䖡䖢䖣䖤䖥䖦䖧䖨䖩䖪䖫䖬䖭䖮䖯䖰䖱䖲䖳䖴䖵䖶䖷䖸䖹䖺䖻䖼䖽䖾䖿䗀䗁䗂䗃䗄䗅䗆䗇䗈䗉䗊䗋䗌䗍䗎䗏䗐䗑䗒䗓䗔䗕䗖䗗䗘䗙䗚䗛䗜䗝䗞䗟䗠䗡䗢䗣䗤䗥䗦䗧䗨䗩䗪䗫䗬䗭䗮䗯䗰䗱䗲䗳䗴䗵䗶䗷䗸䗹䗺䗻䗼䗽䗾䗿",
    "䚀䚁䚂䚃䚄䚅䚆䚇䚈䚉䚊䚋䚌䚍䚎䚏䚐䚑䚒䚓䚔䚕䚖䚗䚘䚙䚚䚛䚜䚝䚞䚟䚠䚡䚢䚣䚤䚥䚦䚧䚨䚩䚪䚫䚬䚭䚮䚯䚰䚱䚲䚳䚴䚵䚶䚷䚸䚹䚺䚻䚼䚽䚾䚿䛀䛁䛂䛃䛄䛅䛆䛇䛈䛉䛊䛋䛌䛍䛎䛏䛐䛑䛒䛓䛔䛕䛖䛗䛘䛙䛚䛛䛜䛝䛞䛟䛠䛡䛢䛣䛤䛥䛦䛧䛨䛩䛪䛫䛬䛭䛮䛯䛰䛱䛲䛳䛴䛵䛶䛷䛸䛹䛺䛻䛼䛽䛾䛿",
    "䞀䞁䞂䞃䞄䞅䞆䞇䞈䞉䞊䞋䞌䞍䞎䞏䞐䞑䞒䞓䞔䞕䞖䞗䞘䞙䞚䞛䞜䞝䞞䞟䞠䞡䞢䞣䞤䞥䞦䞧䞨䞩䞪䞫䞬䞭䞮䞯䞰䞱䞲䞳䞴䞵䞶䞷䞸䞹䞺䞻䞼䞽䞾䞿䟀䟁䟂䟃䟄䟅䟆䟇䟈䟉䟊䟋䟌䟍䟎䟏䟐䟑䟒䟓䟔䟕䟖䟗䟘䟙䟚䟛䟜䟝䟞䟟䟠䟡䟢䟣䟤䟥䟦䟧䟨䟩䟪䟫䟬䟭䟮䟯䟰䟱䟲䟳䟴䟵䟶䟷䟸䟹䟺䟻䟼䟽䟾䟿",
    "䢀䢁䢂䢃䢄䢅䢆䢇䢈䢉䢊䢋䢌䢍䢎䢏䢐䢑䢒䢓䢔䢕䢖䢗䢘䢙䢚䢛䢜䢝䢞䢟䢠䢡䢢䢣䢤䢥䢦䢧䢨䢩䢪䢫䢬䢭䢮䢯䢰䢱䢲䢳䢴䢵䢶䢷䢸䢹䢺䢻䢼䢽䢾䢿䣀䣁䣂䣃䣄䣅䣆䣇䣈䣉䣊䣋䣌䣍䣎䣏䣐䣑䣒䣓䣔䣕䣖䣗䣘䣙䣚䣛䣜䣝䣞䣟䣠䣡䣢䣣䣤䣥䣦䣧䣨䣩䣪䣫䣬䣭䣮䣯䣰䣱䣲䣳䣴䣵䣶䣷䣸䣹䣺䣻䣼䣽䣾䣿",
    "䦀䦁䦂䦃䦄䦅䦆䦇䦈䦉䦊䦋䦌䦍䦎䦏䦐䦑䦒䦓䦔䦕䦖䦗䦘䦙䦚䦛䦜䦝䦞䦟䦠䦡䦢䦣䦤䦥䦦䦧䦨䦩䦪䦫䦬䦭䦮䦯䦰䦱䦲䦳䦴䦵䦶䦷䦸䦹䦺䦻䦼䦽䦾䦿䧀䧁䧂䧃䧄䧅䧆䧇䧈䧉䧊䧋䧌䧍䧎䧏䧐䧑䧒䧓䧔䧕䧖䧗䧘䧙䧚䧛䧜䧝䧞䧟䧠䧡䧢䧣䧤䧥䧦䧧䧨䧩䧪䧫䧬䧭䧮䧯䧰䧱䧲䧳䧴䧵䧶䧷䧸䧹䧺䧻䧼䧽䧾䧿",
    "䪀䪁䪂䪃䪄䪅䪆䪇䪈䪉䪊䪋䪌䪍䪎䪏䪐䪑䪒䪓䪔䪕䪖䪗䪘䪙䪚䪛䪜䪝䪞䪟䪠䪡䪢䪣䪤䪥䪦䪧䪨䪩䪪䪫䪬䪭䪮䪯䪰䪱䪲䪳䪴䪵䪶䪷䪸䪹䪺䪻䪼䪽䪾䪿䫀䫁䫂䫃䫄䫅䫆䫇䫈䫉䫊䫋䫌䫍䫎䫏䫐䫑䫒䫓䫔䫕䫖䫗䫘䫙䫚䫛䫜䫝䫞䫟䫠䫡䫢䫣䫤䫥䫦䫧䫨䫩䫪䫫䫬䫭䫮䫯䫰䫱䫲䫳䫴䫵䫶䫷䫸䫹䫺䫻䫼䫽䫾䫿",
    "䮀䮁䮂䮃䮄䮅䮆䮇䮈䮉䮊䮋䮌䮍䮎䮏䮐䮑䮒䮓䮔䮕䮖䮗䮘䮙䮚䮛䮜䮝䮞䮟䮠䮡䮢䮣䮤䮥䮦䮧䮨䮩䮪䮫䮬䮭䮮䮯䮰䮱䮲䮳䮴䮵䮶䮷䮸䮹䮺䮻䮼䮽䮾䮿䯀䯁䯂䯃䯄䯅䯆䯇䯈䯉䯊䯋䯌䯍䯎䯏䯐䯑䯒䯓䯔䯕䯖䯗䯘䯙䯚䯛䯜䯝䯞䯟䯠䯡䯢䯣䯤䯥䯦䯧䯨䯩䯪䯫䯬䯭䯮䯯䯰䯱䯲䯳䯴䯵䯶䯷䯸䯹䯺䯻䯼䯽䯾䯿",
    "䲀䲁䲂䲃䲄䲅䲆䲇䲈䲉䲊䲋䲌䲍䲎䲏䲐䲑䲒䲓䲔䲕䲖䲗䲘䲙䲚䲛䲜䲝䲞䲟䲠䲡䲢䲣䲤䲥䲦䲧䲨䲩䲪䲫䲬䲭䲮䲯䲰䲱䲲䲳䲴䲵䲶䲷䲸䲹䲺䲻䲼䲽䲾䲿䳀䳁䳂䳃䳄䳅䳆䳇䳈䳉䳊䳋䳌䳍䳎䳏䳐䳑䳒䳓䳔䳕䳖䳗䳘䳙䳚䳛䳜䳝䳞䳟䳠䳡䳢䳣䳤䳥䳦䳧䳨䳩䳪䳫䳬䳭䳮䳯䳰䳱䳲䳳䳴䳵䳶䳷䳸䳹䳺䳻䳼䳽䳾䳿",
    "䶀䶁䶂䶃䶄䶅䶆䶇䶈䶉䶊䶋䶌䶍䶎䶏䶐䶑䶒䶓䶔䶕䶖䶗䶘䶙䶚䶛䶜䶝䶞䶟䶠䶡䶢䶣䶤䶥䶦䶧䶨䶩䶪䶫䶬䶭䶮䶯䶰䶱䶲䶳䶴䶵䶶䶷䶸䶹䶺䶻䶼䶽䶾䶿䷀䷁䷂䷃䷄䷅䷆䷇䷈䷉䷊䷋䷌䷍䷎䷏䷐䷑䷒䷓䷔䷕䷖䷗䷘䷙䷚䷛䷜䷝䷞䷟䷠䷡䷢䷣䷤䷥䷦䷧䷨䷩䷪䷫䷬䷭䷮䷯䷰䷱䷲䷳䷴䷵䷶䷷䷸䷹䷺䷻䷼䷽䷾䷿",
    "亀亁亂亃亄亅了亇予争亊事二亍于亏亐云互亓五井亖亗亘亙亚些亜亝亞亟亠亡亢亣交亥亦产亨亩亪享京亭亮亯亰亱亲亳亴亵亶亷亸亹人亻亼亽亾亿什仁仂仃仄仅仆仇仈仉今介仌仍从仏仐仑仒仓仔仕他仗付仙仚仛仜仝仞仟仠仡仢代令以仦仧仨仩仪仫们仭仮仯仰仱仲仳仴仵件价仸仹仺任仼份仾仿",
    "侀侁侂侃侄侅來侇侈侉侊例侌侍侎侏侐侑侒侓侔侕侖侗侘侙侚供侜依侞侟侠価侢侣侤侥侦侧侨侩侪侫侬侭侮侯侰侱侲侳侴侵侶侷侸侹侺侻侼侽侾便俀俁係促俄俅俆俇俈俉俊俋俌俍俎俏俐俑俒俓俔俕俖俗俘俙俚俛俜保俞俟俠信俢俣俤俥俦俧俨俩俪俫俬俭修俯俰俱俲俳俴俵俶俷俸俹俺俻俼俽俾俿",
    "傀傁傂傃傄傅傆傇傈傉傊傋傌傍傎傏傐傑傒傓傔傕傖傗傘備傚傛傜傝傞傟傠傡傢傣傤傥傦傧储傩傪傫催傭傮傯傰傱傲傳傴債傶傷傸傹傺傻傼傽傾傿僀僁僂僃僄僅僆僇僈僉僊僋僌働僎像僐僑僒僓僔僕僖僗僘僙僚僛僜僝僞僟僠僡僢僣僤僥僦僧僨僩僪僫僬僭僮僯僰僱僲僳僴僵僶僷僸價僺僻僼僽僾僿",
    "冀冁冂冃冄内円冇冈冉冊冋册再冎冏冐冑冒冓冔冕冖冗冘写冚军农冝冞冟冠冡冢冣冤冥冦冧冨冩冪冫冬冭冮冯冰冱冲决冴况冶冷冸冹冺冻冼冽冾冿净凁凂凃凄凅准凇凈凉凊凋凌凍凎减凐凑凒凓凔凕凖凗凘凙凚凛凜凝凞凟几凡凢凣凤凥処凧凨凩凪凫凬凭凮凯凰凱凲凳凴凵凶凷凸凹出击凼函凾凿",
    "劀劁劂劃劄劅劆劇劈劉劊劋劌劍劎劏劐劑劒劓劔劕劖劗劘劙劚力劜劝办功加务劢劣劤劥劦劧动助努劫劬劭劮劯劰励劲劳労劵劶劷劸効劺劻劼劽劾势勀勁勂勃勄勅勆勇勈勉勊勋勌勍勎勏勐勑勒勓勔動勖勗勘務勚勛勜勝勞募勠勡勢勣勤勥勦勧勨勩勪勫勬勭勮勯勰勱勲勳勴勵勶勷勸勹勺勻勼勽勾勿",
    "厀厁厂厃厄厅历厇厈厉厊压厌厍厎厏厐厑厒厓厔厕厖厗厘厙厚厛厜厝厞原厠厡厢厣厤厥厦厧厨厩厪厫厬厭厮厯厰厱厲厳厴厵厶厷厸厹厺去厼厽厾县叀叁参參叄叅叆叇又叉及友双反収叏叐发叒叓叔叕取受变叙叚叛叜叝叞叟叠叡叢口古句另叧叨叩只叫召叭叮可台叱史右叴叵叶号司叹叺叻叼叽叾叿",
    "咀咁咂咃咄咅咆咇咈咉咊咋和咍咎咏咐咑咒咓咔咕咖咗咘咙咚咛咜咝咞咟咠咡咢咣咤咥咦咧咨咩咪咫咬咭咮咯咰咱咲咳咴咵咶咷咸咹咺咻咼咽咾咿哀品哂哃哄哅哆哇哈哉哊哋哌响哎哏哐哑哒哓哔哕哖哗哘哙哚哛哜哝哞哟哠員哢哣哤哥哦哧哨哩哪哫哬哭哮哯哰哱哲哳哴哵哶哷哸哹哺哻哼哽哾哿",
    "喀喁喂喃善喅喆喇喈喉喊喋喌喍喎喏喐喑喒喓喔喕喖喗喘喙喚喛喜喝喞喟喠喡喢喣喤喥喦喧喨喩喪喫喬喭單喯喰喱喲喳喴喵営喷喸喹喺喻喼喽喾喿嗀嗁嗂嗃嗄嗅嗆嗇嗈嗉嗊嗋嗌嗍嗎嗏嗐嗑嗒嗓嗔嗕嗖嗗嗘嗙嗚嗛嗜嗝嗞嗟嗠嗡嗢嗣嗤嗥嗦嗧嗨嗩嗪嗫嗬嗭嗮嗯嗰嗱嗲嗳嗴嗵嗶嗷嗸嗹嗺嗻嗼嗽嗾嗿",
    "嚀嚁嚂嚃嚄嚅嚆嚇嚈嚉嚊嚋嚌嚍嚎嚏嚐嚑嚒嚓嚔嚕嚖嚗嚘嚙嚚嚛嚜嚝嚞嚟嚠嚡嚢嚣嚤嚥嚦嚧嚨嚩嚪嚫嚬嚭嚮嚯嚰嚱嚲嚳嚴嚵嚶嚷嚸嚹嚺嚻嚼嚽嚾嚿囀囁囂囃囄囅囆囇囈囉囊囋囌囍囎囏囐囑囒囓囔囕囖囗囘囙囚四囜囝回囟因囡团団囤囥囦囧囨囩囪囫囬园囮囯困囱囲図围囵囶囷囸囹固囻囼国图囿",
    "垀垁垂垃垄垅垆垇垈垉垊型垌垍垎垏垐垑垒垓垔垕垖垗垘垙垚垛垜垝垞垟垠垡垢垣垤垥垦垧垨垩垪垫垬垭垮垯垰垱垲垳垴垵垶垷垸垹垺垻垼垽垾垿埀埁埂埃埄埅埆埇埈埉埊埋埌埍城埏埐埑埒埓埔埕埖埗埘埙埚埛埜埝埞域埠埡埢埣埤埥埦埧埨埩埪埫埬埭埮埯埰埱埲埳埴埵埶執埸培基埻埼埽埾埿",
    "墀墁墂境墄墅墆墇墈墉墊墋墌墍墎墏墐墑墒墓墔墕墖増墘墙墚墛墜墝增墟墠墡墢墣墤墥墦墧墨墩墪墫墬墭墮墯墰墱墲墳墴墵墶墷墸墹墺墻墼墽墾墿壀壁壂壃壄壅壆壇壈壉壊壋壌壍壎壏壐壑壒壓壔壕壖壗壘壙壚壛壜壝壞壟壠壡壢壣壤壥壦壧壨壩壪士壬壭壮壯声壱売壳壴壵壶壷壸壹壺壻壼壽壾壿",
    "妀妁如妃妄妅妆妇妈妉妊妋妌妍妎妏妐妑妒妓妔妕妖妗妘妙妚妛妜妝妞妟妠妡妢妣妤妥妦妧妨妩妪妫妬妭妮妯妰妱妲妳妴妵妶妷妸妹妺妻妼妽妾妿姀姁姂姃姄姅姆姇姈姉姊始姌姍姎姏姐姑姒姓委姕姖姗姘姙姚姛姜姝姞姟姠姡姢姣姤姥姦姧姨姩姪姫姬姭姮姯姰姱姲姳姴姵姶姷姸姹姺姻姼姽姾姿",
    "媀媁媂媃媄媅媆媇媈媉媊媋媌媍媎媏媐媑媒媓媔媕媖媗媘媙媚媛媜媝媞媟媠媡媢媣媤媥媦媧媨媩媪媫媬媭媮媯媰媱媲媳媴媵媶媷媸媹媺媻媼媽媾媿嫀嫁嫂嫃嫄嫅嫆嫇嫈嫉嫊嫋嫌嫍嫎嫏嫐嫑嫒嫓嫔嫕嫖嫗嫘嫙嫚嫛嫜嫝嫞嫟嫠嫡嫢嫣嫤嫥嫦嫧嫨嫩嫪嫫嫬嫭嫮嫯嫰嫱嫲嫳嫴嫵嫶嫷嫸嫹嫺嫻嫼嫽嫾嫿",
    "宀宁宂它宄宅宆宇守安宊宋完宍宎宏宐宑宒宓宔宕宖宗官宙定宛宜宝实実宠审客宣室宥宦宧宨宩宪宫宬宭宮宯宰宱宲害宴宵家宷宸容宺宻宼宽宾宿寀寁寂寃寄寅密寇寈寉寊寋富寍寎寏寐寑寒寓寔寕寖寗寘寙寚寛寜寝寞察寠寡寢寣寤寥實寧寨審寪寫寬寭寮寯寰寱寲寳寴寵寶寷寸对寺寻导寽対寿",
    "岀岁岂岃岄岅岆岇岈岉岊岋岌岍岎岏岐岑岒岓岔岕岖岗岘岙岚岛岜岝岞岟岠岡岢岣岤岥岦岧岨岩岪岫岬岭岮岯岰岱岲岳岴岵岶岷岸岹岺岻岼岽岾岿峀峁峂峃峄峅峆峇峈峉峊峋峌峍峎峏峐峑峒峓峔峕峖峗峘峙峚峛峜峝峞峟峠峡峢峣峤峥峦峧峨峩峪峫峬峭峮峯峰峱峲峳峴峵島峷峸峹峺峻峼峽峾峿",
    "嶀嶁嶂嶃嶄嶅嶆嶇嶈嶉嶊嶋嶌嶍嶎嶏嶐嶑嶒嶓嶔嶕嶖嶗嶘嶙嶚嶛嶜嶝嶞嶟嶠嶡嶢嶣嶤嶥嶦嶧嶨嶩嶪嶫嶬嶭嶮嶯嶰嶱嶲嶳嶴嶵嶶嶷嶸嶹嶺嶻嶼嶽嶾嶿巀巁巂巃巄巅巆巇巈巉巊巋巌巍巎巏巐巑巒巓巔巕巖巗巘巙巚巛巜川州巟巠巡巢巣巤工左巧巨巩巪巫巬巭差巯巰己已巳巴巵巶巷巸巹巺巻巼巽巾巿",
    "庀庁庂広庄庅庆庇庈庉床庋庌庍庎序庐庑庒库应底庖店庘庙庚庛府庝庞废庠庡庢庣庤庥度座庨庩庪庫庬庭庮庯庰庱庲庳庴庵庶康庸庹庺庻庼庽庾庿廀廁廂廃廄廅廆廇廈廉廊廋廌廍廎廏廐廑廒廓廔廕廖廗廘廙廚廛廜廝廞廟廠廡廢廣廤廥廦廧廨廩廪廫廬廭廮廯廰廱廲廳廴廵延廷廸廹建廻廼廽廾廿",
    "往征徂徃径待徆徇很徉徊律後徍徎徏徐徑徒従徔徕徖得徘徙徚徛徜徝從徟徠御徢徣徤徥徦徧徨復循徫徬徭微徯徰徱徲徳徴徵徶德徸徹徺徻徼徽徾徿忀忁忂心忄必忆忇忈忉忊忋忌忍忎忏忐忑忒忓忔忕忖志忘忙忚忛応忝忞忟忠忡忢忣忤忥忦忧忨忩忪快忬忭忮忯忰忱忲忳忴念忶忷忸忹忺忻忼忽忾忿",
    "悀悁悂悃悄悅悆悇悈悉悊悋悌悍悎悏悐悑悒悓悔悕悖悗悘悙悚悛悜悝悞悟悠悡悢患悤悥悦悧您悩悪悫悬悭悮悯悰悱悲悳悴悵悶悷悸悹悺悻悼悽悾悿惀惁惂惃惄情惆惇惈惉惊惋惌惍惎惏惐惑惒惓惔惕惖惗惘惙惚惛惜惝惞惟惠惡惢惣惤惥惦惧惨惩惪惫惬惭惮惯惰惱惲想惴惵惶惷惸惹惺惻惼惽惾惿",
    "憀憁憂憃憄憅憆憇憈憉憊憋憌憍憎憏憐憑憒憓憔憕憖憗憘憙憚憛憜憝憞憟憠憡憢憣憤憥憦憧憨憩憪憫憬憭憮憯憰憱憲憳憴憵憶憷憸憹憺憻憼憽憾憿懀懁懂懃懄懅懆懇懈應懊懋懌懍懎懏懐懑懒懓懔懕懖懗懘懙懚懛懜懝懞懟懠懡懢懣懤懥懦懧懨懩懪懫懬懭懮懯懰懱懲懳懴懵懶懷懸懹懺懻懼懽懾懿",
    "技抁抂抃抄抅抆抇抈抉把抋抌抍抎抏抐抑抒抓抔投抖抗折抙抚抛抜抝択抟抠抡抢抣护报抦抧抨抩抪披抬抭抮抯抰抱抲抳抴抵抶抷抸抹抺抻押抽抾抿拀拁拂拃拄担拆拇拈拉拊拋拌拍拎拏拐拑拒拓拔拕拖拗拘拙拚招拜拝拞拟拠拡拢拣拤拥拦拧拨择拪拫括拭拮拯拰拱拲拳拴拵拶拷拸拹拺拻拼拽拾拿",
    "掀掁掂掃掄掅掆掇授掉掊掋掌掍掎掏掐掑排掓掔掕掖掗掘掙掚掛掜掝掞掟掠採探掣掤接掦控推掩措掫掬掭掮掯掰掱掲掳掴掵掶掷掸掹掺掻掼掽掾掿揀揁揂揃揄揅揆揇揈揉揊揋揌揍揎描提揑插揓揔揕揖揗揘揙揚換揜揝揞揟揠握揢揣揤揥揦揧揨揩揪揫揬揭揮揯揰揱揲揳援揵揶揷揸揹揺揻揼揽揾揿",
    "撀撁撂撃撄撅撆撇撈撉撊撋撌撍撎撏撐撑撒撓撔撕撖撗撘撙撚撛撜撝撞撟撠撡撢撣撤撥撦撧撨撩撪撫撬播撮撯撰撱撲撳撴撵撶撷撸撹撺撻撼撽撾撿擀擁擂擃擄擅擆擇擈擉擊擋擌操擎擏擐擑擒擓擔擕擖擗擘擙據擛擜擝擞擟擠擡擢擣擤擥擦擧擨擩擪擫擬擭擮擯擰擱擲擳擴擵擶擷擸擹擺擻擼擽擾擿",
    "斀斁斂斃斄斅斆文斈斉斊斋斌斍斎斏斐斑斒斓斔斕斖斗斘料斚斛斜斝斞斟斠斡斢斣斤斥斦斧斨斩斪斫斬断斮斯新斱斲斳斴斵斶斷斸方斺斻於施斾斿旀旁旂旃旄旅旆旇旈旉旊旋旌旍旎族旐旑旒旓旔旕旖旗旘旙旚旛旜旝旞旟无旡既旣旤日旦旧旨早旪旫旬旭旮旯旰旱旲旳旴旵时旷旸旹旺旻旼旽旾旿",
    "暀暁暂暃暄暅暆暇暈暉暊暋暌暍暎暏暐暑暒暓暔暕暖暗暘暙暚暛暜暝暞暟暠暡暢暣暤暥暦暧暨暩暪暫暬暭暮暯暰暱暲暳暴暵暶暷暸暹暺暻暼暽暾暿曀曁曂曃曄曅曆曇曈曉曊曋曌曍曎曏曐曑曒曓曔曕曖曗曘曙曚曛曜曝曞曟曠曡曢曣曤曥曦曧曨曩曪曫曬曭曮曯曰曱曲曳更曵曶曷書曹曺曻曼曽曾替",
    "枀极枂枃构枅枆枇枈枉枊枋枌枍枎枏析枑枒枓枔枕枖林枘枙枚枛果枝枞枟枠枡枢枣枤枥枦枧枨枩枪枫枬枭枮枯枰枱枲枳枴枵架枷枸枹枺枻枼枽枾枿柀柁柂柃柄柅柆柇柈柉柊柋柌柍柎柏某柑柒染柔柕柖柗柘柙柚柛柜柝柞柟柠柡柢柣柤查柦柧柨柩柪柫柬柭柮柯柰柱柲柳柴柵柶柷柸柹柺査柼柽柾柿",
    "梀梁梂梃梄梅梆梇梈梉梊梋梌梍梎梏梐梑梒梓梔梕梖梗梘梙梚梛梜條梞梟梠梡梢梣梤梥梦梧梨梩梪梫梬梭梮梯械梱梲梳梴梵梶梷梸梹梺梻梼梽梾梿检棁棂棃棄棅棆棇棈棉棊棋棌棍棎棏棐棑棒棓棔棕棖棗棘棙棚棛棜棝棞棟棠棡棢棣棤棥棦棧棨棩棪棫棬棭森棯棰棱棲棳棴棵棶棷棸棹棺棻棼棽棾棿",
    "榀榁概榃榄榅榆榇榈榉榊榋榌榍榎榏榐榑榒榓榔榕榖榗榘榙榚榛榜榝榞榟榠榡榢榣榤榥榦榧榨榩榪榫榬榭榮榯榰榱榲榳榴榵榶榷榸榹榺榻榼榽榾榿槀槁槂槃槄槅槆槇槈槉槊構槌槍槎槏槐槑槒槓槔槕槖槗様槙槚槛槜槝槞槟槠槡槢槣槤槥槦槧槨槩槪槫槬槭槮槯槰槱槲槳槴槵槶槷槸槹槺槻槼槽槾槿",
    "檀檁檂檃檄檅檆檇檈檉檊檋檌檍檎檏檐檑檒檓檔檕檖檗檘檙檚檛檜檝檞檟檠檡檢檣檤檥檦檧檨檩檪檫檬檭檮檯檰檱檲檳檴檵檶檷檸檹檺檻檼檽檾檿櫀櫁櫂櫃櫄櫅櫆櫇櫈櫉櫊櫋櫌櫍櫎櫏櫐櫑櫒櫓櫔櫕櫖櫗櫘櫙櫚櫛櫜櫝櫞櫟櫠櫡櫢櫣櫤櫥櫦櫧櫨櫩櫪櫫櫬櫭櫮櫯櫰櫱櫲櫳櫴櫵櫶櫷櫸櫹櫺櫻櫼櫽櫾櫿",
    "殀殁殂殃殄殅殆殇殈殉殊残殌殍殎殏殐殑殒殓殔殕殖殗殘殙殚殛殜殝殞殟殠殡殢殣殤殥殦殧殨殩殪殫殬殭殮殯殰殱殲殳殴段殶殷殸殹殺殻殼殽殾殿毀毁毂毃毄毅毆毇毈毉毊毋毌母毎每毐毑毒毓比毕毖毗毘毙毚毛毜毝毞毟毠毡毢毣毤毥毦毧毨毩毪毫毬毭毮毯毰毱毲毳毴毵毶毷毸毹毺毻毼毽毾毿",
    "沀沁沂沃沄沅沆沇沈沉沊沋沌沍沎沏沐沑沒沓沔沕沖沗沘沙沚沛沜沝沞沟沠没沢沣沤沥沦沧沨沩沪沫沬沭沮沯沰沱沲河沴沵沶沷沸油沺治沼沽沾沿泀況泂泃泄泅泆泇泈泉泊泋泌泍泎泏泐泑泒泓泔法泖泗泘泙泚泛泜泝泞泟泠泡波泣泤泥泦泧注泩泪泫泬泭泮泯泰泱泲泳泴泵泶泷泸泹泺泻泼泽泾泿",
    "涀涁涂涃涄涅涆涇消涉涊涋涌涍涎涏涐涑涒涓涔涕涖涗涘涙涚涛涜涝涞涟涠涡涢涣涤涥润涧涨涩涪涫涬涭涮涯涰涱液涳涴涵涶涷涸涹涺涻涼涽涾涿淀淁淂淃淄淅淆淇淈淉淊淋淌淍淎淏淐淑淒淓淔淕淖淗淘淙淚淛淜淝淞淟淠淡淢淣淤淥淦淧淨淩淪淫淬淭淮淯淰深淲淳淴淵淶混淸淹淺添淼淽淾淿",
    "満溁溂溃溄溅溆溇溈溉溊溋溌溍溎溏源溑溒溓溔溕準溗溘溙溚溛溜溝溞溟溠溡溢溣溤溥溦溧溨溩溪溫溬溭溮溯溰溱溲溳溴溵溶溷溸溹溺溻溼溽溾溿滀滁滂滃滄滅滆滇滈滉滊滋滌滍滎滏滐滑滒滓滔滕滖滗滘滙滚滛滜滝滞滟滠满滢滣滤滥滦滧滨滩滪滫滬滭滮滯滰滱滲滳滴滵滶滷滸滹滺滻滼滽滾滿",
    "澀澁澂澃澄澅澆澇澈澉澊澋澌澍澎澏澐澑澒澓澔澕澖澗澘澙澚澛澜澝澞澟澠澡澢澣澤澥澦澧澨澩澪澫澬澭澮澯澰澱澲澳澴澵澶澷澸澹澺澻澼澽澾澿激濁濂濃濄濅濆濇濈濉濊濋濌濍濎濏濐濑濒濓濔濕濖濗濘濙濚濛濜濝濞濟濠濡濢濣濤濥濦濧濨濩濪濫濬濭濮濯濰濱濲濳濴濵濶濷濸濹濺濻濼濽濾濿",
    "炀炁炂炃炄炅炆炇炈炉炊炋炌炍炎炏炐炑炒炓炔炕炖炗炘炙炚炛炜炝炞炟炠炡炢炣炤炥炦炧炨炩炪炫炬炭炮炯炰炱炲炳炴炵炶炷炸点為炻炼炽炾炿烀烁烂烃烄烅烆烇烈烉烊烋烌烍烎烏烐烑烒烓烔烕烖烗烘烙烚烛烜烝烞烟烠烡烢烣烤烥烦烧烨烩烪烫烬热烮烯烰烱烲烳烴烵烶烷烸烹烺烻烼烽烾烿",
    "熀熁熂熃熄熅熆熇熈熉熊熋熌熍熎熏熐熑熒熓熔熕熖熗熘熙熚熛熜熝熞熟熠熡熢熣熤熥熦熧熨熩熪熫熬熭熮熯熰熱熲熳熴熵熶熷熸熹熺熻熼熽熾熿燀燁燂燃燄燅燆燇燈燉燊燋燌燍燎燏燐燑燒燓燔燕燖燗燘燙燚燛燜燝燞營燠燡燢燣燤燥燦燧燨燩燪燫燬燭燮燯燰燱燲燳燴燵燶燷燸燹燺燻燼燽燾燿",
    "犀犁犂犃犄犅犆犇犈犉犊犋犌犍犎犏犐犑犒犓犔犕犖犗犘犙犚犛犜犝犞犟犠犡犢犣犤犥犦犧犨犩犪犫犬犭犮犯犰犱犲犳犴犵状犷犸犹犺犻犼犽犾犿狀狁狂狃狄狅狆狇狈狉狊狋狌狍狎狏狐狑狒狓狔狕狖狗狘狙狚狛狜狝狞狟狠狡狢狣狤狥狦狧狨狩狪狫独狭狮狯狰狱狲狳狴狵狶狷狸狹狺狻狼狽狾狿",
    "玀玁玂玃玄玅玆率玈玉玊王玌玍玎玏玐玑玒玓玔玕玖玗玘玙玚玛玜玝玞玟玠玡玢玣玤玥玦玧玨玩玪玫玬玭玮环现玱玲玳玴玵玶玷玸玹玺玻玼玽玾玿珀珁珂珃珄珅珆珇珈珉珊珋珌珍珎珏珐珑珒珓珔珕珖珗珘珙珚珛珜珝珞珟珠珡珢珣珤珥珦珧珨珩珪珫珬班珮珯珰珱珲珳珴珵珶珷珸珹珺珻珼珽現珿",
    "璀璁璂璃璄璅璆璇璈璉璊璋璌璍璎璏璐璑璒璓璔璕璖璗璘璙璚璛璜璝璞璟璠璡璢璣璤璥璦璧璨璩璪璫璬璭璮璯環璱璲璳璴璵璶璷璸璹璺璻璼璽璾璿瓀瓁瓂瓃瓄瓅瓆瓇瓈瓉瓊瓋瓌瓍瓎瓏瓐瓑瓒瓓瓔瓕瓖瓗瓘瓙瓚瓛瓜瓝瓞瓟瓠瓡瓢瓣瓤瓥瓦瓧瓨瓩瓪瓫瓬瓭瓮瓯瓰瓱瓲瓳瓴瓵瓶瓷瓸瓹瓺瓻瓼瓽瓾瓿",
    "疀疁疂疃疄疅疆疇疈疉疊疋疌疍疎疏疐疑疒疓疔疕疖疗疘疙疚疛疜疝疞疟疠疡疢疣疤疥疦疧疨疩疪疫疬疭疮疯疰疱疲疳疴疵疶疷疸疹疺疻疼疽疾疿痀痁痂痃痄病痆症痈痉痊痋痌痍痎痏痐痑痒痓痔痕痖痗痘痙痚痛痜痝痞痟痠痡痢痣痤痥痦痧痨痩痪痫痬痭痮痯痰痱痲痳痴痵痶痷痸痹痺痻痼痽痾痿",
    "皀皁皂皃的皅皆皇皈皉皊皋皌皍皎皏皐皑皒皓皔皕皖皗皘皙皚皛皜皝皞皟皠皡皢皣皤皥皦皧皨皩皪皫皬皭皮皯皰皱皲皳皴皵皶皷皸皹皺皻皼皽皾皿盀盁盂盃盄盅盆盇盈盉益盋盌盍盎盏盐监盒盓盔盕盖盗盘盙盚盛盜盝盞盟盠盡盢監盤盥盦盧盨盩盪盫盬盭目盯盰盱盲盳直盵盶盷相盹盺盻盼盽盾盿",
    "瞀瞁瞂瞃瞄瞅瞆瞇瞈瞉瞊瞋瞌瞍瞎瞏瞐瞑瞒瞓瞔瞕瞖瞗瞘瞙瞚瞛瞜瞝瞞瞟瞠瞡瞢瞣瞤瞥瞦瞧瞨瞩瞪瞫瞬瞭瞮瞯瞰瞱瞲瞳瞴瞵瞶瞷瞸瞹瞺瞻瞼瞽瞾瞿矀矁矂矃矄矅矆矇矈矉矊矋矌矍矎矏矐矑矒矓矔矕矖矗矘矙矚矛矜矝矞矟矠矡矢矣矤知矦矧矨矩矪矫矬短矮矯矰矱矲石矴矵矶矷矸矹矺矻矼矽矾矿",
    "碀碁碂碃碄碅碆碇碈碉碊碋碌碍碎碏碐碑碒碓碔碕碖碗碘碙碚碛碜碝碞碟碠碡碢碣碤碥碦碧碨碩碪碫碬碭碮碯碰碱碲碳碴碵碶碷碸碹確碻碼碽碾碿磀磁磂磃磄磅磆磇磈磉磊磋磌磍磎磏磐磑磒磓磔磕磖磗磘磙磚磛磜磝磞磟磠磡磢磣磤磥磦磧磨磩磪磫磬磭磮磯磰磱磲磳磴磵磶磷磸磹磺磻磼磽磾磿",
    "禀禁禂禃禄禅禆禇禈禉禊禋禌禍禎福禐禑禒禓禔禕禖禗禘禙禚禛禜禝禞禟禠禡禢禣禤禥禦禧禨禩禪禫禬禭禮禯禰禱禲禳禴禵禶禷禸禹禺离禼禽禾禿秀私秂秃秄秅秆秇秈秉秊秋秌种秎秏秐科秒秓秔秕秖秗秘秙秚秛秜秝秞租秠秡秢秣秤秥秦秧秨秩秪秫秬秭秮积称秱秲秳秴秵秶秷秸秹秺移秼秽秾秿",
    "窀突窂窃窄窅窆窇窈窉窊窋窌窍窎窏窐窑窒窓窔窕窖窗窘窙窚窛窜窝窞窟窠窡窢窣窤窥窦窧窨窩窪窫窬窭窮窯窰窱窲窳窴窵窶窷窸窹窺窻窼窽窾窿竀竁竂竃竄竅竆竇竈竉竊立竌竍竎竏竐竑竒竓竔竕竖竗竘站竚竛竜竝竞竟章竡竢竣竤童竦竧竨竩竪竫竬竭竮端竰竱竲竳竴竵競竷竸竹竺竻竼竽竾竿",
    "简箁箂箃箄箅箆箇箈箉箊箋箌箍箎箏箐箑箒箓箔箕箖算箘箙箚箛箜箝箞箟箠管箢箣箤箥箦箧箨箩箪箫箬箭箮箯箰箱箲箳箴箵箶箷箸箹箺箻箼箽箾箿節篁篂篃範篅篆篇篈築篊篋篌篍篎篏篐篑篒篓篔篕篖篗篘篙篚篛篜篝篞篟篠篡篢篣篤篥篦篧篨篩篪篫篬篭篮篯篰篱篲篳篴篵篶篷篸篹篺篻篼篽篾篿",
    "粀粁粂粃粄粅粆粇粈粉粊粋粌粍粎粏粐粑粒粓粔粕粖粗粘粙粚粛粜粝粞粟粠粡粢粣粤粥粦粧粨粩粪粫粬粭粮粯粰粱粲粳粴粵粶粷粸粹粺粻粼粽精粿糀糁糂糃糄糅糆糇糈糉糊糋糌糍糎糏糐糑糒糓糔糕糖糗糘糙糚糛糜糝糞糟糠糡糢糣糤糥糦糧糨糩糪糫糬糭糮糯糰糱糲糳糴糵糶糷糸糹糺系糼糽糾糿",
    "綀綁綂綃綄綅綆綇綈綉綊綋綌綍綎綏綐綑綒經綔綕綖綗綘継続綛綜綝綞綟綠綡綢綣綤綥綦綧綨綩綪綫綬維綮綯綰綱網綳綴綵綶綷綸綹綺綻綼綽綾綿緀緁緂緃緄緅緆緇緈緉緊緋緌緍緎総緐緑緒緓緔緕緖緗緘緙線緛緜緝緞緟締緡緢緣緤緥緦緧編緩緪緫緬緭緮緯緰緱緲緳練緵緶緷緸緹緺緻緼緽緾緿",
    "纀纁纂纃纄纅纆纇纈纉纊纋續纍纎纏纐纑纒纓纔纕纖纗纘纙纚纛纜纝纞纟纠纡红纣纤纥约级纨纩纪纫纬纭纮纯纰纱纲纳纴纵纶纷纸纹纺纻纼纽纾线绀绁绂练组绅细织终绉绊绋绌绍绎经绐绑绒结绔绕绖绗绘给绚绛络绝绞统绠绡绢绣绤绥绦继绨绩绪绫绬续绮绯绰绱绲绳维绵绶绷绸绹绺绻综绽绾绿",
    "羀羁羂羃羄羅羆羇羈羉羊羋羌羍美羏羐羑羒羓羔羕羖羗羘羙羚羛羜羝羞羟羠羡羢羣群羥羦羧羨義羪羫羬羭羮羯羰羱羲羳羴羵羶羷羸羹羺羻羼羽羾羿翀翁翂翃翄翅翆翇翈翉翊翋翌翍翎翏翐翑習翓翔翕翖翗翘翙翚翛翜翝翞翟翠翡翢翣翤翥翦翧翨翩翪翫翬翭翮翯翰翱翲翳翴翵翶翷翸翹翺翻翼翽翾翿",
    "肀肁肂肃肄肅肆肇肈肉肊肋肌肍肎肏肐肑肒肓肔肕肖肗肘肙肚肛肜肝肞肟肠股肢肣肤肥肦肧肨肩肪肫肬肭肮肯肰肱育肳肴肵肶肷肸肹肺肻肼肽肾肿胀胁胂胃胄胅胆胇胈胉胊胋背胍胎胏胐胑胒胓胔胕胖胗胘胙胚胛胜胝胞胟胠胡胢胣胤胥胦胧胨胩胪胫胬胭胮胯胰胱胲胳胴胵胶胷胸胹胺胻胼能胾胿",
    "膀膁膂膃膄膅膆膇膈膉膊膋膌膍膎膏膐膑膒膓膔膕膖膗膘膙膚膛膜膝膞膟膠膡膢膣膤膥膦膧膨膩膪膫膬膭膮膯膰膱膲膳膴膵膶膷膸膹膺膻膼膽膾膿臀臁臂臃臄臅臆臇臈臉臊臋臌臍臎臏臐臑臒臓臔臕臖臗臘臙臚臛臜臝臞臟臠臡臢臣臤臥臦臧臨臩自臫臬臭臮臯臰臱臲至致臵臶臷臸臹臺臻臼臽臾臿",
    "芀芁节芃芄芅芆芇芈芉芊芋芌芍芎芏芐芑芒芓芔芕芖芗芘芙芚芛芜芝芞芟芠芡芢芣芤芥芦芧芨芩芪芫芬芭芮芯芰花芲芳芴芵芶芷芸芹芺芻芼芽芾芿苀苁苂苃苄苅苆苇苈苉苊苋苌苍苎苏苐苑苒苓苔苕苖苗苘苙苚苛苜苝苞苟苠苡苢苣苤若苦苧苨苩苪苫苬苭苮苯苰英苲苳苴苵苶苷苸苹苺苻苼苽苾苿",
    "莀莁莂莃莄莅莆莇莈莉莊莋莌莍莎莏莐莑莒莓莔莕莖莗莘莙莚莛莜莝莞莟莠莡莢莣莤莥莦莧莨莩莪莫莬莭莮莯莰莱莲莳莴莵莶获莸莹莺莻莼莽莾莿菀菁菂菃菄菅菆菇菈菉菊菋菌菍菎菏菐菑菒菓菔菕菖菗菘菙菚菛菜菝菞菟菠菡菢菣菤菥菦菧菨菩菪菫菬菭菮華菰菱菲菳菴菵菶菷菸菹菺菻菼菽菾菿",
    "蒀蒁蒂蒃蒄蒅蒆蒇蒈蒉蒊蒋蒌蒍蒎蒏蒐蒑蒒蒓蒔蒕蒖蒗蒘蒙蒚蒛蒜蒝蒞蒟蒠蒡蒢蒣蒤蒥蒦蒧蒨蒩蒪蒫蒬蒭蒮蒯蒰蒱蒲蒳蒴蒵蒶蒷蒸蒹蒺蒻蒼蒽蒾蒿蓀蓁蓂蓃蓄蓅蓆蓇蓈蓉蓊蓋蓌蓍蓎蓏蓐蓑蓒蓓蓔蓕蓖蓗蓘蓙蓚蓛蓜蓝蓞蓟蓠蓡蓢蓣蓤蓥蓦蓧蓨蓩蓪蓫蓬蓭蓮蓯蓰蓱蓲蓳蓴蓵蓶蓷蓸蓹蓺蓻蓼蓽蓾蓿",
    "薀薁薂薃薄薅薆薇薈薉薊薋薌薍薎薏薐薑薒薓薔薕薖薗薘薙薚薛薜薝薞薟薠薡薢薣薤薥薦薧薨薩薪薫薬薭薮薯薰薱薲薳薴薵薶薷薸薹薺薻薼薽薾薿藀藁藂藃藄藅藆藇藈藉藊藋藌藍藎藏藐藑藒藓藔藕藖藗藘藙藚藛藜藝藞藟藠藡藢藣藤藥藦藧藨藩藪藫藬藭藮藯藰藱藲藳藴藵藶藷藸藹藺藻藼藽藾藿",
    "蚀蚁蚂蚃蚄蚅蚆蚇蚈蚉蚊蚋蚌蚍蚎蚏蚐蚑蚒蚓蚔蚕蚖蚗蚘蚙蚚蚛蚜蚝蚞蚟蚠蚡蚢蚣蚤蚥蚦蚧蚨蚩蚪蚫蚬蚭蚮蚯蚰蚱蚲蚳蚴蚵蚶蚷蚸蚹蚺蚻蚼蚽蚾蚿蛀蛁蛂蛃蛄蛅蛆蛇蛈蛉蛊蛋蛌蛍蛎蛏蛐蛑蛒蛓蛔蛕蛖蛗蛘蛙蛚蛛蛜蛝蛞蛟蛠蛡蛢蛣蛤蛥蛦蛧蛨蛩蛪蛫蛬蛭蛮蛯蛰蛱蛲蛳蛴蛵蛶蛷蛸蛹蛺蛻蛼蛽蛾蛿",
    "螀螁螂螃螄螅螆螇螈螉螊螋螌融螎螏螐螑螒螓螔螕螖螗螘螙螚螛螜螝螞螟螠螡螢螣螤螥螦螧螨螩螪螫螬螭螮螯螰螱螲螳螴螵螶螷螸螹螺螻螼螽螾螿蟀蟁蟂蟃蟄蟅蟆蟇蟈蟉蟊蟋蟌蟍蟎蟏蟐蟑蟒蟓蟔蟕蟖蟗蟘蟙蟚蟛蟜蟝蟞蟟蟠蟡蟢蟣蟤蟥蟦蟧蟨蟩蟪蟫蟬蟭蟮蟯蟰蟱蟲蟳蟴蟵蟶蟷蟸蟹蟺蟻蟼蟽蟾蟿",
    "袀袁袂袃袄袅袆袇袈袉袊袋袌袍袎袏袐袑袒袓袔袕袖袗袘袙袚袛袜袝袞袟袠袡袢袣袤袥袦袧袨袩袪被袬袭袮袯袰袱袲袳袴袵袶袷袸袹袺袻袼袽袾袿裀裁裂裃裄装裆裇裈裉裊裋裌裍裎裏裐裑裒裓裔裕裖裗裘裙裚裛補裝裞裟裠裡裢裣裤裥裦裧裨裩裪裫裬裭裮裯裰裱裲裳裴裵裶裷裸裹裺裻裼製裾裿",
    "覀要覂覃覄覅覆覇覈覉覊見覌覍覎規覐覑覒覓覔覕視覗覘覙覚覛覜覝覞覟覠覡覢覣覤覥覦覧覨覩親覫覬覭覮覯覰覱覲観覴覵覶覷覸覹覺覻覼覽覾覿觀见观觃规觅视觇览觉觊觋觌觍觎觏觐觑角觓觔觕觖觗觘觙觚觛觜觝觞觟觠觡觢解觤觥触觧觨觩觪觫觬觭觮觯觰觱觲觳觴觵觶觷觸觹觺觻觼觽觾觿",
    "誀誁誂誃誄誅誆誇誈誉誊誋誌認誎誏誐誑誒誓誔誕誖誗誘誙誚誛誜誝語誟誠誡誢誣誤誥誦誧誨誩說誫説読誮誯誰誱課誳誴誵誶誷誸誹誺誻誼誽誾調諀諁諂諃諄諅諆談諈諉諊請諌諍諎諏諐諑諒諓諔諕論諗諘諙諚諛諜諝諞諟諠諡諢諣諤諥諦諧諨諩諪諫諬諭諮諯諰諱諲諳諴諵諶諷諸諹諺諻諼諽諾諿",
    "讀讁讂讃讄讅讆讇讈讉變讋讌讍讎讏讐讑讒讓讔讕讖讗讘讙讚讛讜讝讞讟讠计订讣认讥讦讧讨让讪讫讬训议讯记讱讲讳讴讵讶讷许讹论讻讼讽设访诀证诂诃评诅识诇诈诉诊诋诌词诎诏诐译诒诓诔试诖诗诘诙诚诛诜话诞诟诠诡询诣诤该详诧诨诩诪诫诬语诮误诰诱诲诳说诵诶请诸诹诺读诼诽课诿",
    "貀貁貂貃貄貅貆貇貈貉貊貋貌貍貎貏貐貑貒貓貔貕貖貗貘貙貚貛貜貝貞貟負財貢貣貤貥貦貧貨販貪貫責貭貮貯貰貱貲貳貴貵貶買貸貹貺費貼貽貾貿賀賁賂賃賄賅賆資賈賉賊賋賌賍賎賏賐賑賒賓賔賕賖賗賘賙賚賛賜賝賞賟賠賡賢賣賤賥賦賧賨賩質賫賬賭賮賯賰賱賲賳賴賵賶賷賸賹賺賻購賽賾賿",
    "趀趁趂趃趄超趆趇趈趉越趋趌趍趎趏趐趑趒趓趔趕趖趗趘趙趚趛趜趝趞趟趠趡趢趣趤趥趦趧趨趩趪趫趬趭趮趯趰趱趲足趴趵趶趷趸趹趺趻趼趽趾趿跀跁跂跃跄跅跆跇跈跉跊跋跌跍跎跏跐跑跒跓跔跕跖跗跘跙跚跛跜距跞跟跠跡跢跣跤跥跦跧跨跩跪跫跬跭跮路跰跱跲跳跴践跶跷跸跹跺跻跼跽跾跿",
    "躀躁躂躃躄躅躆躇躈躉躊躋躌躍躎躏躐躑躒躓躔躕躖躗躘躙躚躛躜躝躞躟躠躡躢躣躤躥躦躧躨躩躪身躬躭躮躯躰躱躲躳躴躵躶躷躸躹躺躻躼躽躾躿軀軁軂軃軄軅軆軇軈軉車軋軌軍軎軏軐軑軒軓軔軕軖軗軘軙軚軛軜軝軞軟軠軡転軣軤軥軦軧軨軩軪軫軬軭軮軯軰軱軲軳軴軵軶軷軸軹軺軻軼軽軾軿",
    "辀辁辂较辄辅辆辇辈辉辊辋辌辍辎辏辐辑辒输辔辕辖辗辘辙辚辛辜辝辞辟辠辡辢辣辤辥辦辧辨辩辪辫辬辭辮辯辰辱農辳辴辵辶辷辸边辺辻込辽达辿迀迁迂迃迄迅迆过迈迉迊迋迌迍迎迏运近迒迓返迕迖迗还这迚进远违连迟迠迡迢迣迤迥迦迧迨迩迪迫迬迭迮迯述迱迲迳迴迵迶迷迸迹迺迻迼追迾迿",
    "邀邁邂邃還邅邆邇邈邉邊邋邌邍邎邏邐邑邒邓邔邕邖邗邘邙邚邛邜邝邞邟邠邡邢那邤邥邦邧邨邩邪邫邬邭邮邯邰邱邲邳邴邵邶邷邸邹邺邻邼邽邾邿郀郁郂郃郄郅郆郇郈郉郊郋郌郍郎郏郐郑郒郓郔郕郖郗郘郙郚郛郜郝郞郟郠郡郢郣郤郥郦郧部郩郪郫郬郭郮郯郰郱郲郳郴郵郶郷郸郹郺郻郼都郾郿",
    "醀醁醂醃醄醅醆醇醈醉醊醋醌醍醎醏醐醑醒醓醔醕醖醗醘醙醚醛醜醝醞醟醠醡醢醣醤醥醦醧醨醩醪醫醬醭醮醯醰醱醲醳醴醵醶醷醸醹醺醻醼醽醾醿釀釁釂釃釄釅釆采釈釉释釋里重野量釐金釒釓釔釕釖釗釘釙釚釛釜針釞釟釠釡釢釣釤釥釦釧釨釩釪釫釬釭釮釯釰釱釲釳釴釵釶釷釸釹釺釻釼釽釾釿",
    "銀銁銂銃銄銅銆銇銈銉銊銋銌銍銎銏銐銑銒銓銔銕銖銗銘銙銚銛銜銝銞銟銠銡銢銣銤銥銦銧銨銩銪銫銬銭銮銯銰銱銲銳銴銵銶銷銸銹銺銻銼銽銾銿鋀鋁鋂鋃鋄鋅鋆鋇鋈鋉鋊鋋鋌鋍鋎鋏鋐鋑鋒鋓鋔鋕鋖鋗鋘鋙鋚鋛鋜鋝鋞鋟鋠鋡鋢鋣鋤鋥鋦鋧鋨鋩鋪鋫鋬鋭鋮鋯鋰鋱鋲鋳鋴鋵鋶鋷鋸鋹鋺鋻鋼鋽鋾鋿",
    "鎀鎁鎂鎃鎄鎅鎆鎇鎈鎉鎊鎋鎌鎍鎎鎏鎐鎑鎒鎓鎔鎕鎖鎗鎘鎙鎚鎛鎜鎝鎞鎟鎠鎡鎢鎣鎤鎥鎦鎧鎨鎩鎪鎫鎬鎭鎮鎯鎰鎱鎲鎳鎴鎵鎶鎷鎸鎹鎺鎻鎼鎽鎾鎿鏀鏁鏂鏃鏄鏅鏆鏇鏈鏉鏊鏋鏌鏍鏎鏏鏐鏑鏒鏓鏔鏕鏖鏗鏘鏙鏚鏛鏜鏝鏞鏟鏠鏡鏢鏣鏤鏥鏦鏧鏨鏩鏪鏫鏬鏭鏮鏯鏰鏱鏲鏳鏴鏵鏶鏷鏸鏹鏺鏻鏼鏽鏾鏿",
    "钀钁钂钃钄钅钆钇针钉钊钋钌钍钎钏钐钑钒钓钔钕钖钗钘钙钚钛钜钝钞钟钠钡钢钣钤钥钦钧钨钩钪钫钬钭钮钯钰钱钲钳钴钵钶钷钸钹钺钻钼钽钾钿铀铁铂铃铄铅铆铇铈铉铊铋铌铍铎铏铐铑铒铓铔铕铖铗铘铙铚铛铜铝铞铟铠铡铢铣铤铥铦铧铨铩铪铫铬铭铮铯铰铱铲铳铴铵银铷铸铹铺铻铼铽链铿",
    "門閁閂閃閄閅閆閇閈閉閊開閌閍閎閏閐閑閒間閔閕閖閗閘閙閚閛閜閝閞閟閠閡関閣閤閥閦閧閨閩閪閫閬閭閮閯閰閱閲閳閴閵閶閷閸閹閺閻閼閽閾閿闀闁闂闃闄闅闆闇闈闉闊闋闌闍闎闏闐闑闒闓闔闕闖闗闘闙闚闛關闝闞闟闠闡闢闣闤闥闦闧门闩闪闫闬闭问闯闰闱闲闳间闵闶闷闸闹闺闻闼闽闾闿",
    "隀隁隂隃隄隅隆隇隈隉隊隋隌隍階随隐隑隒隓隔隕隖隗隘隙隚際障隝隞隟隠隡隢隣隤隥隦隧隨隩險隫隬隭隮隯隰隱隲隳隴隵隶隷隸隹隺隻隼隽难隿雀雁雂雃雄雅集雇雈雉雊雋雌雍雎雏雐雑雒雓雔雕雖雗雘雙雚雛雜雝雞雟雠雡離難雤雥雦雧雨雩雪雫雬雭雮雯雰雱雲雳雴雵零雷雸雹雺電雼雽雾雿",
    "鞀鞁鞂鞃鞄鞅鞆鞇鞈鞉鞊鞋鞌鞍鞎鞏鞐鞑鞒鞓鞔鞕鞖鞗鞘鞙鞚鞛鞜鞝鞞鞟鞠鞡鞢鞣鞤鞥鞦鞧鞨鞩鞪鞫鞬鞭鞮鞯鞰鞱鞲鞳鞴鞵鞶鞷鞸鞹鞺鞻鞼鞽鞾鞿韀韁韂韃韄韅韆韇韈韉韊韋韌韍韎韏韐韑韒韓韔韕韖韗韘韙韚韛韜韝韞韟韠韡韢韣韤韥韦韧韨韩韪韫韬韭韮韯韰韱韲音韴韵韶韷韸韹韺韻韼韽韾響",
    "颀颁颂颃预颅领颇颈颉颊颋颌颍颎颏颐频颒颓颔颕颖颗题颙颚颛颜额颞颟颠颡颢颣颤颥颦颧風颩颪颫颬颭颮颯颰颱颲颳颴颵颶颷颸颹颺颻颼颽颾颿飀飁飂飃飄飅飆飇飈飉飊飋飌飍风飏飐飑飒飓飔飕飖飗飘飙飚飛飜飝飞食飠飡飢飣飤飥飦飧飨飩飪飫飬飭飮飯飰飱飲飳飴飵飶飷飸飹飺飻飼飽飾飿",
    "馀馁馂馃馄馅馆馇馈馉馊馋馌馍馎馏馐馑馒馓馔馕首馗馘香馚馛馜馝馞馟馠馡馢馣馤馥馦馧馨馩馪馫馬馭馮馯馰馱馲馳馴馵馶馷馸馹馺馻馼馽馾馿駀駁駂駃駄駅駆駇駈駉駊駋駌駍駎駏駐駑駒駓駔駕駖駗駘駙駚駛駜駝駞駟駠駡駢駣駤駥駦駧駨駩駪駫駬駭駮駯駰駱駲駳駴駵駶駷駸駹駺駻駼駽駾駿",
    "骀骁骂骃骄骅骆骇骈骉骊骋验骍骎骏骐骑骒骓骔骕骖骗骘骙骚骛骜骝骞骟骠骡骢骣骤骥骦骧骨骩骪骫骬骭骮骯骰骱骲骳骴骵骶骷骸骹骺骻骼骽骾骿髀髁髂髃髄髅髆髇髈髉髊髋髌髍髎髏髐髑髒髓體髕髖髗高髙髚髛髜髝髞髟髠髡髢髣髤髥髦髧髨髩髪髫髬髭髮髯髰髱髲髳髴髵髶髷髸髹髺髻髼髽髾髿",
    "鮀鮁鮂鮃鮄鮅鮆鮇鮈鮉鮊鮋鮌鮍鮎鮏鮐鮑鮒鮓鮔鮕鮖鮗鮘鮙鮚鮛鮜鮝鮞鮟鮠鮡鮢鮣鮤鮥鮦鮧鮨鮩鮪鮫鮬鮭鮮鮯鮰鮱鮲鮳鮴鮵鮶鮷鮸鮹鮺鮻鮼鮽鮾鮿鯀鯁鯂鯃鯄鯅鯆鯇鯈鯉鯊鯋鯌鯍鯎鯏鯐鯑鯒鯓鯔鯕鯖鯗鯘鯙鯚鯛鯜鯝鯞鯟鯠鯡鯢鯣鯤鯥鯦鯧鯨鯩鯪鯫鯬鯭鯮鯯鯰鯱鯲鯳鯴鯵鯶鯷鯸鯹鯺鯻鯼鯽鯾鯿",
    "鲀鲁鲂鲃鲄鲅鲆鲇鲈鲉鲊鲋鲌鲍鲎鲏鲐鲑鲒鲓鲔鲕鲖鲗鲘鲙鲚鲛鲜鲝鲞鲟鲠鲡鲢鲣鲤鲥鲦鲧鲨鲩鲪鲫鲬鲭鲮鲯鲰鲱鲲鲳鲴鲵鲶鲷鲸鲹鲺鲻鲼鲽鲾鲿鳀鳁鳂鳃鳄鳅鳆鳇鳈鳉鳊鳋鳌鳍鳎鳏鳐鳑鳒鳓鳔鳕鳖鳗鳘鳙鳚鳛鳜鳝鳞鳟鳠鳡鳢鳣鳤鳥鳦鳧鳨鳩鳪鳫鳬鳭鳮鳯鳰鳱鳲鳳鳴鳵鳶鳷鳸鳹鳺鳻鳼鳽鳾鳿",
    "鶀鶁鶂鶃鶄鶅鶆鶇鶈鶉鶊鶋鶌鶍鶎鶏鶐鶑鶒鶓鶔鶕鶖鶗鶘鶙鶚鶛鶜鶝鶞鶟鶠鶡鶢鶣鶤鶥鶦鶧鶨鶩鶪鶫鶬鶭鶮鶯鶰鶱鶲鶳鶴鶵鶶鶷鶸鶹鶺鶻鶼鶽鶾鶿鷀鷁鷂鷃鷄鷅鷆鷇鷈鷉鷊鷋鷌鷍鷎鷏鷐鷑鷒鷓鷔鷕鷖鷗鷘鷙鷚鷛鷜鷝鷞鷟鷠鷡鷢鷣鷤鷥鷦鷧鷨鷩鷪鷫鷬鷭鷮鷯鷰鷱鷲鷳鷴鷵鷶鷷鷸鷹鷺鷻鷼鷽鷾鷿",
    "麀麁麂麃麄麅麆麇麈麉麊麋麌麍麎麏麐麑麒麓麔麕麖麗麘麙麚麛麜麝麞麟麠麡麢麣麤麥麦麧麨麩麪麫麬麭麮麯麰麱麲麳麴麵麶麷麸麹麺麻麼麽麾麿黀黁黂黃黄黅黆黇黈黉黊黋黌黍黎黏黐黑黒黓黔黕黖黗默黙黚黛黜黝點黟黠黡黢黣黤黥黦黧黨黩黪黫黬黭黮黯黰黱黲黳黴黵黶黷黸黹黺黻黼黽黾黿",
    "龀龁龂龃龄龅龆龇龈龉龊龋龌龍龎龏龐龑龒龓龔龕龖龗龘龙龚龛龜龝龞龟龠龡龢龣龤龥龦龧龨龩龪龫龬龭龮龯龰龱龲龳龴龵龶龷龸龹龺龻龼龽龾龿鿀鿁鿂鿃鿄鿅鿆鿇鿈鿉鿊鿋鿌鿍鿎鿏鿐鿑鿒鿓鿔鿕鿖鿗鿘鿙鿚鿛鿜鿝鿞鿟鿠鿡鿢鿣鿤鿥鿦鿧鿨鿩鿪鿫鿬鿭鿮鿯鿰鿱鿲鿳鿴鿵鿶鿷鿸鿹鿺鿻鿼鿽鿾鿿",
    "ꂀꂁꂂꂃꂄꂅꂆꂇꂈꂉꂊꂋꂌꂍꂎꂏꂐꂑꂒꂓꂔꂕꂖꂗꂘꂙꂚꂛꂜꂝꂞꂟꂠꂡꂢꂣꂤꂥꂦꂧꂨꂩꂪꂫꂬꂭꂮꂯꂰꂱꂲꂳꂴꂵꂶꂷꂸꂹꂺꂻꂼꂽꂾꂿꃀꃁꃂꃃꃄꃅꃆꃇꃈꃉꃊꃋꃌꃍꃎꃏꃐꃑꃒꃓꃔꃕꃖꃗꃘꃙꃚꃛꃜꃝꃞꃟꃠꃡꃢꃣꃤꃥꃦꃧꃨꃩꃪꃫꃬꃭꃮꃯꃰꃱꃲꃳꃴꃵꃶꃷꃸꃹꃺꃻꃼꃽꃾꃿ",
    "ꆀꆁꆂꆃꆄꆅꆆꆇꆈꆉꆊꆋꆌꆍꆎꆏꆐꆑꆒꆓꆔꆕꆖꆗꆘꆙꆚꆛꆜꆝꆞꆟꆠꆡꆢꆣꆤꆥꆦꆧꆨꆩꆪꆫꆬꆭꆮꆯꆰꆱꆲꆳꆴꆵꆶꆷꆸꆹꆺꆻꆼꆽꆾꆿꇀꇁꇂꇃꇄꇅꇆꇇꇈꇉꇊꇋꇌꇍꇎꇏꇐꇑꇒꇓꇔꇕꇖꇗꇘꇙꇚꇛꇜꇝꇞꇟꇠꇡꇢꇣꇤꇥꇦꇧꇨꇩꇪꇫꇬꇭꇮꇯꇰꇱꇲꇳꇴꇵꇶꇷꇸꇹꇺꇻꇼꇽꇾꇿ",
    "ꊀꊁꊂꊃꊄꊅꊆꊇꊈꊉꊊꊋꊌꊍꊎꊏꊐꊑꊒꊓꊔꊕꊖꊗꊘꊙꊚꊛꊜꊝꊞꊟꊠꊡꊢꊣꊤꊥꊦꊧꊨꊩꊪꊫꊬꊭꊮꊯꊰꊱꊲꊳꊴꊵꊶꊷꊸꊹꊺꊻꊼꊽꊾꊿꋀꋁꋂꋃꋄꋅꋆꋇꋈꋉꋊꋋꋌꋍꋎꋏꋐꋑꋒꋓꋔꋕꋖꋗꋘꋙꋚꋛꋜꋝꋞꋟꋠꋡꋢꋣꋤꋥꋦꋧꋨꋩꋪꋫꋬꋭꋮꋯꋰꋱꋲꋳꋴꋵꋶꋷꋸꋹꋺꋻꋼꋽꋾꋿ",
    "ꎀꎁꎂꎃꎄꎅꎆꎇꎈꎉꎊꎋꎌꎍꎎꎏꎐꎑꎒꎓꎔꎕꎖꎗꎘꎙꎚꎛꎜꎝꎞꎟꎠꎡꎢꎣꎤꎥꎦꎧꎨꎩꎪꎫꎬꎭꎮꎯꎰꎱꎲꎳꎴꎵꎶꎷꎸꎹꎺꎻꎼꎽꎾꎿꏀꏁꏂꏃꏄꏅꏆꏇꏈꏉꏊꏋꏌꏍꏎꏏꏐꏑꏒꏓꏔꏕꏖꏗꏘꏙꏚꏛꏜꏝꏞꏟꏠꏡꏢꏣꏤꏥꏦꏧꏨꏩꏪꏫꏬꏭꏮꏯꏰꏱꏲꏳꏴꏵꏶꏷꏸꏹꏺꏻꏼꏽꏾꏿ",
    "ꒀꒁꒂꒃꒄꒅꒆꒇꒈꒉꒊꒋꒌ꒍꒎꒏꒐꒑꒒꒓꒔꒕꒖꒗꒘꒙꒚꒛꒜꒝꒞꒟꒠꒡꒢꒣꒤꒥꒦꒧꒨꒩꒪꒫꒬꒭꒮꒯꒰꒱꒲꒳꒴꒵꒶꒷꒸꒹꒺꒻꒼꒽꒾꒿꓀꓁꓂꓃꓄꓅꓆꓇꓈꓉꓊꓋꓌꓍꓎꓏ꓐꓑꓒꓓꓔꓕꓖꓗꓘꓙꓚꓛꓜꓝꓞꓟꓠꓡꓢꓣꓤꓥꓦꓧꓨꓩꓪꓫꓬꓭꓮꓯꓰꓱꓲꓳꓴꓵꓶꓷꓸꓹꓺꓻꓼꓽ꓾꓿",
    "ꖀꖁꖂꖃꖄꖅꖆꖇꖈꖉꖊꖋꖌꖍꖎꖏꖐꖑꖒꖓꖔꖕꖖꖗꖘꖙꖚꖛꖜꖝꖞꖟꖠꖡꖢꖣꖤꖥꖦꖧꖨꖩꖪꖫꖬꖭꖮꖯꖰꖱꖲꖳꖴꖵꖶꖷꖸꖹꖺꖻꖼꖽꖾꖿꗀꗁꗂꗃꗄꗅꗆꗇꗈꗉꗊꗋꗌꗍꗎꗏꗐꗑꗒꗓꗔꗕꗖꗗꗘꗙꗚꗛꗜꗝꗞꗟꗠꗡꗢꗣꗤꗥꗦꗧꗨꗩꗪꗫꗬꗭꗮꗯꗰꗱꗲꗳꗴꗵꗶꗷꗸꗹꗺꗻꗼꗽꗾꗿ",
    "ꚀꚁꚂꚃꚄꚅꚆꚇꚈꚉꚊꚋꚌꚍꚎꚏꚐꚑꚒꚓꚔꚕꚖꚗꚘꚙꚚꚛꚜꚝꚞꚟꚠꚡꚢꚣꚤꚥꚦꚧꚨꚩꚪꚫꚬꚭꚮꚯꚰꚱꚲꚳꚴꚵꚶꚷꚸꚹꚺꚻꚼꚽꚾꚿꛀꛁꛂꛃꛄꛅꛆꛇꛈꛉꛊꛋꛌꛍꛎꛏꛐꛑꛒꛓꛔꛕꛖꛗꛘꛙꛚꛛꛜꛝꛞꛟꛠꛡꛢꛣꛤꛥꛦꛧꛨꛩꛪꛫꛬꛭꛮꛯ꛰꛱꛲꛳꛴꛵꛶꛷꛸꛹꛺꛻꛼꛽꛾꛿",
    "ꞀꞁꞂꞃꞄꞅꞆꞇꞈ꞉꞊ꞋꞌꞍꞎꞏꞐꞑꞒꞓꞔꞕꞖꞗꞘꞙꞚꞛꞜꞝꞞꞟꞠꞡꞢꞣꞤꞥꞦꞧꞨꞩꞪꞫꞬꞭꞮꞯꞰꞱꞲꞳꞴꞵꞶꞷꞸꞹꞺꞻꞼꞽꞾꞿꟀꟁꟂꟃꟄꟅꟆꟇꟈꟉꟊꟋꟌꟍ꟎꟏Ꟑꟑ꟒ꟓ꟔ꟕꟖꟗꟘꟙꟚꟛꟜ꟝꟞꟟꟠꟡꟢꟣꟤꟥꟦꟧꟨꟩꟪꟫꟬꟭꟮꟯꟰꟱ꟲꟳꟴꟵꟶꟷꟸꟹꟺꟻꟼꟽꟾꟿ",
    "ꢀꢁꢂꢃꢄꢅꢆꢇꢈꢉꢊꢋꢌꢍꢎꢏꢐꢑꢒꢓꢔꢕꢖꢗꢘꢙꢚꢛꢜꢝꢞꢟꢠꢡꢢꢣꢤꢥꢦꢧꢨꢩꢪꢫꢬꢭꢮꢯꢰꢱꢲꢳꢴꢵꢶꢷꢸꢹꢺꢻꢼꢽꢾꢿꣀꣁꣂꣃ꣄ꣅ꣆꣇꣈꣉꣊꣋꣌꣍꣎꣏꣐꣑꣒꣓꣔꣕꣖꣗꣘꣙꣚꣛꣜꣝꣞꣟꣠꣡꣢꣣꣤꣥꣦꣧꣨꣩꣪꣫꣬꣭꣮꣯꣰꣱ꣲꣳꣴꣵꣶꣷ꣸꣹꣺ꣻ꣼ꣽꣾꣿ",
    "ꦀꦁꦂꦃꦄꦅꦆꦇꦈꦉꦊꦋꦌꦍꦎꦏꦐꦑꦒꦓꦔꦕꦖꦗꦘꦙꦚꦛꦜꦝꦞꦟꦠꦡꦢꦣꦤꦥꦦꦧꦨꦩꦪꦫꦬꦭꦮꦯꦰꦱꦲ꦳ꦴꦵꦶꦷꦸꦹꦺꦻꦼꦽꦾꦿ꧀꧁꧂꧃꧄꧅꧆꧇꧈꧉꧊꧋꧌꧍꧎ꧏ꧐꧑꧒꧓꧔꧕꧖꧗꧘꧙꧚꧛꧜꧝꧞꧟ꧠꧡꧢꧣꧤꧥꧦꧧꧨꧩꧪꧫꧬꧭꧮꧯ꧰꧱꧲꧳꧴꧵꧶꧷꧸꧹ꧺꧻꧼꧽꧾ꧿",
    "ꪀꪁꪂꪃꪄꪅꪆꪇꪈꪉꪊꪋꪌꪍꪎꪏꪐꪑꪒꪓꪔꪕꪖꪗꪘꪙꪚꪛꪜꪝꪞꪟꪠꪡꪢꪣꪤꪥꪦꪧꪨꪩꪪꪫꪬꪭꪮꪯꪰꪱꪴꪲꪳꪵꪶꪷꪸꪹꪺꪻꪼꪽꪾ꪿ꫀ꫁ꫂ꫃꫄꫅꫆꫇꫈꫉꫊꫋꫌꫍꫎꫏꫐꫑꫒꫓꫔꫕꫖꫗꫘꫙꫚ꫛꫜꫝ꫞꫟ꫠꫡꫢꫣꫤꫥꫦꫧꫨꫩꫪꫫꫬꫭꫮꫯ꫰꫱ꫲꫳꫴꫵ꫶꫷꫸꫹꫺꫻꫼꫽꫾꫿",
    "ꮀꮁꮂꮃꮄꮅꮆꮇꮈꮉꮊꮋꮌꮍꮎꮏꮐꮑꮒꮓꮔꮕꮖꮗꮘꮙꮚꮛꮜꮝꮞꮟꮠꮡꮢꮣꮤꮥꮦꮧꮨꮩꮪꮫꮬꮭꮮꮯꮰꮱꮲꮳꮴꮵꮶꮷꮸꮹꮺꮻꮼꮽꮾꮿꯀꯁꯂꯃꯄꯅꯆꯇꯈꯉꯊꯋꯌꯍꯎꯏꯐꯑꯒꯓꯔꯕꯖꯗꯘꯙꯚꯛꯜꯝꯞꯟꯠꯡꯢꯣꯤꯥꯦꯧꯨꯩꯪ꯫꯬꯭꯮꯯꯰꯱꯲꯳꯴꯵꯶꯷꯸꯹꯺꯻꯼꯽꯾꯿",
    "검겁겂것겄겅겆겇겈겉겊겋게겍겎겏겐겑겒겓겔겕겖겗겘겙겚겛겜겝겞겟겠겡겢겣겤겥겦겧겨격겪겫견겭겮겯결겱겲겳겴겵겶겷겸겹겺겻겼경겾겿곀곁곂곃계곅곆곇곈곉곊곋곌곍곎곏곐곑곒곓곔곕곖곗곘곙곚곛곜곝곞곟고곡곢곣곤곥곦곧골곩곪곫곬곭곮곯곰곱곲곳곴공곶곷곸곹곺곻과곽곾곿",
    "궀궁궂궃궄궅궆궇궈궉궊궋권궍궎궏궐궑궒궓궔궕궖궗궘궙궚궛궜궝궞궟궠궡궢궣궤궥궦궧궨궩궪궫궬궭궮궯궰궱궲궳궴궵궶궷궸궹궺궻궼궽궾궿귀귁귂귃귄귅귆귇귈귉귊귋귌귍귎귏귐귑귒귓귔귕귖귗귘귙귚귛규귝귞귟균귡귢귣귤귥귦귧귨귩귪귫귬귭귮귯귰귱귲귳귴귵귶귷그극귺귻근귽귾귿",
    "꺀꺁꺂꺃꺄꺅꺆꺇꺈꺉꺊꺋꺌꺍꺎꺏꺐꺑꺒꺓꺔꺕꺖꺗꺘꺙꺚꺛꺜꺝꺞꺟꺠꺡꺢꺣꺤꺥꺦꺧꺨꺩꺪꺫꺬꺭꺮꺯꺰꺱꺲꺳꺴꺵꺶꺷꺸꺹꺺꺻꺼꺽꺾꺿껀껁껂껃껄껅껆껇껈껉껊껋껌껍껎껏껐껑껒껓껔껕껖껗께껙껚껛껜껝껞껟껠껡껢껣껤껥껦껧껨껩껪껫껬껭껮껯껰껱껲껳껴껵껶껷껸껹껺껻껼껽껾껿",
    "꾀꾁꾂꾃꾄꾅꾆꾇꾈꾉꾊꾋꾌꾍꾎꾏꾐꾑꾒꾓꾔꾕꾖꾗꾘꾙꾚꾛꾜꾝꾞꾟꾠꾡꾢꾣꾤꾥꾦꾧꾨꾩꾪꾫꾬꾭꾮꾯꾰꾱꾲꾳꾴꾵꾶꾷꾸꾹꾺꾻꾼꾽꾾꾿꿀꿁꿂꿃꿄꿅꿆꿇꿈꿉꿊꿋꿌꿍꿎꿏꿐꿑꿒꿓꿔꿕꿖꿗꿘꿙꿚꿛꿜꿝꿞꿟꿠꿡꿢꿣꿤꿥꿦꿧꿨꿩꿪꿫꿬꿭꿮꿯꿰꿱꿲꿳꿴꿵꿶꿷꿸꿹꿺꿻꿼꿽꿾꿿",
    "낀낁낂낃낄낅낆낇낈낉낊낋낌낍낎낏낐낑낒낓낔낕낖낗나낙낚낛난낝낞낟날낡낢낣낤낥낦낧남납낪낫났낭낮낯낰낱낲낳내낵낶낷낸낹낺낻낼낽낾낿냀냁냂냃냄냅냆냇냈냉냊냋냌냍냎냏냐냑냒냓냔냕냖냗냘냙냚냛냜냝냞냟냠냡냢냣냤냥냦냧냨냩냪냫냬냭냮냯냰냱냲냳냴냵냶냷냸냹냺냻냼냽냾냿",
    "놀놁놂놃놄놅놆놇놈놉놊놋놌농놎놏놐놑높놓놔놕놖놗놘놙놚놛놜놝놞놟놠놡놢놣놤놥놦놧놨놩놪놫놬놭놮놯놰놱놲놳놴놵놶놷놸놹놺놻놼놽놾놿뇀뇁뇂뇃뇄뇅뇆뇇뇈뇉뇊뇋뇌뇍뇎뇏뇐뇑뇒뇓뇔뇕뇖뇗뇘뇙뇚뇛뇜뇝뇞뇟뇠뇡뇢뇣뇤뇥뇦뇧뇨뇩뇪뇫뇬뇭뇮뇯뇰뇱뇲뇳뇴뇵뇶뇷뇸뇹뇺뇻뇼뇽뇾뇿",
    "늀늁늂늃늄늅늆늇늈늉늊늋늌늍늎늏느늑늒늓는늕늖늗늘늙늚늛늜늝늞늟늠늡늢늣늤능늦늧늨늩늪늫늬늭늮늯늰늱늲늳늴늵늶늷늸늹늺늻늼늽늾늿닀닁닂닃닄닅닆닇니닉닊닋닌닍닎닏닐닑닒닓닔닕닖닗님닙닚닛닜닝닞닟닠닡닢닣다닥닦닧단닩닪닫달닭닮닯닰닱닲닳담답닶닷닸당닺닻닼닽닾닿",
    "뎀뎁뎂뎃뎄뎅뎆뎇뎈뎉뎊뎋뎌뎍뎎뎏뎐뎑뎒뎓뎔뎕뎖뎗뎘뎙뎚뎛뎜뎝뎞뎟뎠뎡뎢뎣뎤뎥뎦뎧뎨뎩뎪뎫뎬뎭뎮뎯뎰뎱뎲뎳뎴뎵뎶뎷뎸뎹뎺뎻뎼뎽뎾뎿돀돁돂돃도독돆돇돈돉돊돋돌돍돎돏돐돑돒돓돔돕돖돗돘동돚돛돜돝돞돟돠돡돢돣돤돥돦돧돨돩돪돫돬돭돮돯돰돱돲돳돴돵돶돷돸돹돺돻돼돽돾돿",
    "뒀뒁뒂뒃뒄뒅뒆뒇뒈뒉뒊뒋뒌뒍뒎뒏뒐뒑뒒뒓뒔뒕뒖뒗뒘뒙뒚뒛뒜뒝뒞뒟뒠뒡뒢뒣뒤뒥뒦뒧뒨뒩뒪뒫뒬뒭뒮뒯뒰뒱뒲뒳뒴뒵뒶뒷뒸뒹뒺뒻뒼뒽뒾뒿듀듁듂듃듄듅듆듇듈듉듊듋듌듍듎듏듐듑듒듓듔듕듖듗듘듙듚듛드득듞듟든듡듢듣들듥듦듧듨듩듪듫듬듭듮듯듰등듲듳듴듵듶듷듸듹듺듻듼듽듾듿",
    "떀떁떂떃떄떅떆떇떈떉떊떋떌떍떎떏떐떑떒떓떔떕떖떗떘떙떚떛떜떝떞떟떠떡떢떣떤떥떦떧떨떩떪떫떬떭떮떯떰떱떲떳떴떵떶떷떸떹떺떻떼떽떾떿뗀뗁뗂뗃뗄뗅뗆뗇뗈뗉뗊뗋뗌뗍뗎뗏뗐뗑뗒뗓뗔뗕뗖뗗뗘뗙뗚뗛뗜뗝뗞뗟뗠뗡뗢뗣뗤뗥뗦뗧뗨뗩뗪뗫뗬뗭뗮뗯뗰뗱뗲뗳뗴뗵뗶뗷뗸뗹뗺뗻뗼뗽뗾뗿",
    "뚀뚁뚂뚃뚄뚅뚆뚇뚈뚉뚊뚋뚌뚍뚎뚏뚐뚑뚒뚓뚔뚕뚖뚗뚘뚙뚚뚛뚜뚝뚞뚟뚠뚡뚢뚣뚤뚥뚦뚧뚨뚩뚪뚫뚬뚭뚮뚯뚰뚱뚲뚳뚴뚵뚶뚷뚸뚹뚺뚻뚼뚽뚾뚿뛀뛁뛂뛃뛄뛅뛆뛇뛈뛉뛊뛋뛌뛍뛎뛏뛐뛑뛒뛓뛔뛕뛖뛗뛘뛙뛚뛛뛜뛝뛞뛟뛠뛡뛢뛣뛤뛥뛦뛧뛨뛩뛪뛫뛬뛭뛮뛯뛰뛱뛲뛳뛴뛵뛶뛷뛸뛹뛺뛻뛼뛽뛾뛿",
    "란랁랂랃랄랅랆랇랈랉랊랋람랍랎랏랐랑랒랓랔랕랖랗래랙랚랛랜랝랞랟랠랡랢랣랤랥랦랧램랩랪랫랬랭랮랯랰랱랲랳랴략랶랷랸랹랺랻랼랽랾랿럀럁럂럃럄럅럆럇럈량럊럋럌럍럎럏럐럑럒럓럔럕럖럗럘럙럚럛럜럝럞럟럠럡럢럣럤럥럦럧럨럩럪럫러럭럮럯런럱럲럳럴럵럶럷럸럹럺럻럼럽럾럿",
    "뢀뢁뢂뢃뢄뢅뢆뢇뢈뢉뢊뢋뢌뢍뢎뢏뢐뢑뢒뢓뢔뢕뢖뢗뢘뢙뢚뢛뢜뢝뢞뢟뢠뢡뢢뢣뢤뢥뢦뢧뢨뢩뢪뢫뢬뢭뢮뢯뢰뢱뢲뢳뢴뢵뢶뢷뢸뢹뢺뢻뢼뢽뢾뢿룀룁룂룃룄룅룆룇룈룉룊룋료룍룎룏룐룑룒룓룔룕룖룗룘룙룚룛룜룝룞룟룠룡룢룣룤룥룦룧루룩룪룫룬룭룮룯룰룱룲룳룴룵룶룷룸룹룺룻룼룽룾룿",
    "릀릁릂릃름릅릆릇릈릉릊릋릌릍릎릏릐릑릒릓릔릕릖릗릘릙릚릛릜릝릞릟릠릡릢릣릤릥릦릧릨릩릪릫리릭릮릯린릱릲릳릴릵릶릷릸릹릺릻림립릾릿맀링맂맃맄맅맆맇마막맊맋만맍많맏말맑맒맓맔맕맖맗맘맙맚맛맜망맞맟맠맡맢맣매맥맦맧맨맩맪맫맬맭맮맯맰맱맲맳맴맵맶맷맸맹맺맻맼맽맾맿",
    "몀몁몂몃몄명몆몇몈몉몊몋몌몍몎몏몐몑몒몓몔몕몖몗몘몙몚몛몜몝몞몟몠몡몢몣몤몥몦몧모목몪몫몬몭몮몯몰몱몲몳몴몵몶몷몸몹몺못몼몽몾몿뫀뫁뫂뫃뫄뫅뫆뫇뫈뫉뫊뫋뫌뫍뫎뫏뫐뫑뫒뫓뫔뫕뫖뫗뫘뫙뫚뫛뫜뫝뫞뫟뫠뫡뫢뫣뫤뫥뫦뫧뫨뫩뫪뫫뫬뫭뫮뫯뫰뫱뫲뫳뫴뫵뫶뫷뫸뫹뫺뫻뫼뫽뫾뫿",
    "뮀뮁뮂뮃뮄뮅뮆뮇뮈뮉뮊뮋뮌뮍뮎뮏뮐뮑뮒뮓뮔뮕뮖뮗뮘뮙뮚뮛뮜뮝뮞뮟뮠뮡뮢뮣뮤뮥뮦뮧뮨뮩뮪뮫뮬뮭뮮뮯뮰뮱뮲뮳뮴뮵뮶뮷뮸뮹뮺뮻뮼뮽뮾뮿므믁믂믃믄믅믆믇믈믉믊믋믌믍믎믏믐믑믒믓믔믕믖믗믘믙믚믛믜믝믞믟믠믡믢믣믤믥믦믧믨믩믪믫믬믭믮믯믰믱믲믳믴믵믶믷미믹믺믻민믽믾믿",
    "벀벁벂벃버벅벆벇번벉벊벋벌벍벎벏벐벑벒벓범법벖벗벘벙벚벛벜벝벞벟베벡벢벣벤벥벦벧벨벩벪벫벬벭벮벯벰벱벲벳벴벵벶벷벸벹벺벻벼벽벾벿변볁볂볃별볅볆볇볈볉볊볋볌볍볎볏볐병볒볓볔볕볖볗볘볙볚볛볜볝볞볟볠볡볢볣볤볥볦볧볨볩볪볫볬볭볮볯볰볱볲볳보복볶볷본볹볺볻볼볽볾볿",
    "부북붂붃분붅붆붇불붉붊붋붌붍붎붏붐붑붒붓붔붕붖붗붘붙붚붛붜붝붞붟붠붡붢붣붤붥붦붧붨붩붪붫붬붭붮붯붰붱붲붳붴붵붶붷붸붹붺붻붼붽붾붿뷀뷁뷂뷃뷄뷅뷆뷇뷈뷉뷊뷋뷌뷍뷎뷏뷐뷑뷒뷓뷔뷕뷖뷗뷘뷙뷚뷛뷜뷝뷞뷟뷠뷡뷢뷣뷤뷥뷦뷧뷨뷩뷪뷫뷬뷭뷮뷯뷰뷱뷲뷳뷴뷵뷶뷷뷸뷹뷺뷻뷼뷽뷾뷿",
    "뺀뺁뺂뺃뺄뺅뺆뺇뺈뺉뺊뺋뺌뺍뺎뺏뺐뺑뺒뺓뺔뺕뺖뺗뺘뺙뺚뺛뺜뺝뺞뺟뺠뺡뺢뺣뺤뺥뺦뺧뺨뺩뺪뺫뺬뺭뺮뺯뺰뺱뺲뺳뺴뺵뺶뺷뺸뺹뺺뺻뺼뺽뺾뺿뻀뻁뻂뻃뻄뻅뻆뻇뻈뻉뻊뻋뻌뻍뻎뻏뻐뻑뻒뻓뻔뻕뻖뻗뻘뻙뻚뻛뻜뻝뻞뻟뻠뻡뻢뻣뻤뻥뻦뻧뻨뻩뻪뻫뻬뻭뻮뻯뻰뻱뻲뻳뻴뻵뻶뻷뻸뻹뻺뻻뻼뻽뻾뻿",
    "뾀뾁뾂뾃뾄뾅뾆뾇뾈뾉뾊뾋뾌뾍뾎뾏뾐뾑뾒뾓뾔뾕뾖뾗뾘뾙뾚뾛뾜뾝뾞뾟뾠뾡뾢뾣뾤뾥뾦뾧뾨뾩뾪뾫뾬뾭뾮뾯뾰뾱뾲뾳뾴뾵뾶뾷뾸뾹뾺뾻뾼뾽뾾뾿뿀뿁뿂뿃뿄뿅뿆뿇뿈뿉뿊뿋뿌뿍뿎뿏뿐뿑뿒뿓뿔뿕뿖뿗뿘뿙뿚뿛뿜뿝뿞뿟뿠뿡뿢뿣뿤뿥뿦뿧뿨뿩뿪뿫뿬뿭뿮뿯뿰뿱뿲뿳뿴뿵뿶뿷뿸뿹뿺뿻뿼뿽뿾뿿",
    "삀삁삂삃삄삅삆삇삈삉삊삋삌삍삎삏삐삑삒삓삔삕삖삗삘삙삚삛삜삝삞삟삠삡삢삣삤삥삦삧삨삩삪삫사삭삮삯산삱삲삳살삵삶삷삸삹삺삻삼삽삾삿샀상샂샃샄샅샆샇새색샊샋샌샍샎샏샐샑샒샓샔샕샖샗샘샙샚샛샜생샞샟샠샡샢샣샤샥샦샧샨샩샪샫샬샭샮샯샰샱샲샳샴샵샶샷샸샹샺샻샼샽샾샿",
    "솀솁솂솃솄솅솆솇솈솉솊솋소속솎솏손솑솒솓솔솕솖솗솘솙솚솛솜솝솞솟솠송솢솣솤솥솦솧솨솩솪솫솬솭솮솯솰솱솲솳솴솵솶솷솸솹솺솻솼솽솾솿쇀쇁쇂쇃쇄쇅쇆쇇쇈쇉쇊쇋쇌쇍쇎쇏쇐쇑쇒쇓쇔쇕쇖쇗쇘쇙쇚쇛쇜쇝쇞쇟쇠쇡쇢쇣쇤쇥쇦쇧쇨쇩쇪쇫쇬쇭쇮쇯쇰쇱쇲쇳쇴쇵쇶쇷쇸쇹쇺쇻쇼쇽쇾쇿",
    "슀슁슂슃슄슅슆슇슈슉슊슋슌슍슎슏슐슑슒슓슔슕슖슗슘슙슚슛슜슝슞슟슠슡슢슣스슥슦슧슨슩슪슫슬슭슮슯슰슱슲슳슴습슶슷슸승슺슻슼슽슾슿싀싁싂싃싄싅싆싇싈싉싊싋싌싍싎싏싐싑싒싓싔싕싖싗싘싙싚싛시식싞싟신싡싢싣실싥싦싧싨싩싪싫심십싮싯싰싱싲싳싴싵싶싷싸싹싺싻싼싽싾싿",
    "쎀쎁쎂쎃쎄쎅쎆쎇쎈쎉쎊쎋쎌쎍쎎쎏쎐쎑쎒쎓쎔쎕쎖쎗쎘쎙쎚쎛쎜쎝쎞쎟쎠쎡쎢쎣쎤쎥쎦쎧쎨쎩쎪쎫쎬쎭쎮쎯쎰쎱쎲쎳쎴쎵쎶쎷쎸쎹쎺쎻쎼쎽쎾쎿쏀쏁쏂쏃쏄쏅쏆쏇쏈쏉쏊쏋쏌쏍쏎쏏쏐쏑쏒쏓쏔쏕쏖쏗쏘쏙쏚쏛쏜쏝쏞쏟쏠쏡쏢쏣쏤쏥쏦쏧쏨쏩쏪쏫쏬쏭쏮쏯쏰쏱쏲쏳쏴쏵쏶쏷쏸쏹쏺쏻쏼쏽쏾쏿",
    "쒀쒁쒂쒃쒄쒅쒆쒇쒈쒉쒊쒋쒌쒍쒎쒏쒐쒑쒒쒓쒔쒕쒖쒗쒘쒙쒚쒛쒜쒝쒞쒟쒠쒡쒢쒣쒤쒥쒦쒧쒨쒩쒪쒫쒬쒭쒮쒯쒰쒱쒲쒳쒴쒵쒶쒷쒸쒹쒺쒻쒼쒽쒾쒿쓀쓁쓂쓃쓄쓅쓆쓇쓈쓉쓊쓋쓌쓍쓎쓏쓐쓑쓒쓓쓔쓕쓖쓗쓘쓙쓚쓛쓜쓝쓞쓟쓠쓡쓢쓣쓤쓥쓦쓧쓨쓩쓪쓫쓬쓭쓮쓯쓰쓱쓲쓳쓴쓵쓶쓷쓸쓹쓺쓻쓼쓽쓾쓿",
    "얀얁얂얃얄얅얆얇얈얉얊얋얌얍얎얏얐양얒얓얔얕얖얗얘얙얚얛얜얝얞얟얠얡얢얣얤얥얦얧얨얩얪얫얬얭얮얯얰얱얲얳어억얶얷언얹얺얻얼얽얾얿엀엁엂엃엄업없엇었엉엊엋엌엍엎엏에엑엒엓엔엕엖엗엘엙엚엛엜엝엞엟엠엡엢엣엤엥엦엧엨엩엪엫여역엮엯연엱엲엳열엵엶엷엸엹엺엻염엽엾엿",
    "욀욁욂욃욄욅욆욇욈욉욊욋욌욍욎욏욐욑욒욓요욕욖욗욘욙욚욛욜욝욞욟욠욡욢욣욤욥욦욧욨용욪욫욬욭욮욯우욱욲욳운욵욶욷울욹욺욻욼욽욾욿움웁웂웃웄웅웆웇웈웉웊웋워웍웎웏원웑웒웓월웕웖웗웘웙웚웛웜웝웞웟웠웡웢웣웤웥웦웧웨웩웪웫웬웭웮웯웰웱웲웳웴웵웶웷웸웹웺웻웼웽웾웿",
    "잀잁잂잃임입잆잇있잉잊잋잌잍잎잏자작잒잓잔잕잖잗잘잙잚잛잜잝잞잟잠잡잢잣잤장잦잧잨잩잪잫재잭잮잯잰잱잲잳잴잵잶잷잸잹잺잻잼잽잾잿쟀쟁쟂쟃쟄쟅쟆쟇쟈쟉쟊쟋쟌쟍쟎쟏쟐쟑쟒쟓쟔쟕쟖쟗쟘쟙쟚쟛쟜쟝쟞쟟쟠쟡쟢쟣쟤쟥쟦쟧쟨쟩쟪쟫쟬쟭쟮쟯쟰쟱쟲쟳쟴쟵쟶쟷쟸쟹쟺쟻쟼쟽쟾쟿",
    "좀좁좂좃좄종좆좇좈좉좊좋좌좍좎좏좐좑좒좓좔좕좖좗좘좙좚좛좜좝좞좟좠좡좢좣좤좥좦좧좨좩좪좫좬좭좮좯좰좱좲좳좴좵좶좷좸좹좺좻좼좽좾좿죀죁죂죃죄죅죆죇죈죉죊죋죌죍죎죏죐죑죒죓죔죕죖죗죘죙죚죛죜죝죞죟죠죡죢죣죤죥죦죧죨죩죪죫죬죭죮죯죰죱죲죳죴죵죶죷죸죹죺죻주죽죾죿",
    "즀즁즂즃즄즅즆즇즈즉즊즋즌즍즎즏즐즑즒즓즔즕즖즗즘즙즚즛즜증즞즟즠즡즢즣즤즥즦즧즨즩즪즫즬즭즮즯즰즱즲즳즴즵즶즷즸즹즺즻즼즽즾즿지직짂짃진짅짆짇질짉짊짋짌짍짎짏짐집짒짓짔징짖짗짘짙짚짛짜짝짞짟짠짡짢짣짤짥짦짧짨짩짪짫짬짭짮짯짰짱짲짳짴짵짶짷째짹짺짻짼짽짾짿",
    "쪀쪁쪂쪃쪄쪅쪆쪇쪈쪉쪊쪋쪌쪍쪎쪏쪐쪑쪒쪓쪔쪕쪖쪗쪘쪙쪚쪛쪜쪝쪞쪟쪠쪡쪢쪣쪤쪥쪦쪧쪨쪩쪪쪫쪬쪭쪮쪯쪰쪱쪲쪳쪴쪵쪶쪷쪸쪹쪺쪻쪼쪽쪾쪿쫀쫁쫂쫃쫄쫅쫆쫇쫈쫉쫊쫋쫌쫍쫎쫏쫐쫑쫒쫓쫔쫕쫖쫗쫘쫙쫚쫛쫜쫝쫞쫟쫠쫡쫢쫣쫤쫥쫦쫧쫨쫩쫪쫫쫬쫭쫮쫯쫰쫱쫲쫳쫴쫵쫶쫷쫸쫹쫺쫻쫼쫽쫾쫿",
    "쮀쮁쮂쮃쮄쮅쮆쮇쮈쮉쮊쮋쮌쮍쮎쮏쮐쮑쮒쮓쮔쮕쮖쮗쮘쮙쮚쮛쮜쮝쮞쮟쮠쮡쮢쮣쮤쮥쮦쮧쮨쮩쮪쮫쮬쮭쮮쮯쮰쮱쮲쮳쮴쮵쮶쮷쮸쮹쮺쮻쮼쮽쮾쮿쯀쯁쯂쯃쯄쯅쯆쯇쯈쯉쯊쯋쯌쯍쯎쯏쯐쯑쯒쯓쯔쯕쯖쯗쯘쯙쯚쯛쯜쯝쯞쯟쯠쯡쯢쯣쯤쯥쯦쯧쯨쯩쯪쯫쯬쯭쯮쯯쯰쯱쯲쯳쯴쯵쯶쯷쯸쯹쯺쯻쯼쯽쯾쯿",
    "첀첁첂첃첄첅첆첇첈첉첊첋첌첍첎첏첐첑첒첓첔첕첖첗처척첚첛천첝첞첟철첡첢첣첤첥첦첧첨첩첪첫첬청첮첯첰첱첲첳체첵첶첷첸첹첺첻첼첽첾첿쳀쳁쳂쳃쳄쳅쳆쳇쳈쳉쳊쳋쳌쳍쳎쳏쳐쳑쳒쳓쳔쳕쳖쳗쳘쳙쳚쳛쳜쳝쳞쳟쳠쳡쳢쳣쳤쳥쳦쳧쳨쳩쳪쳫쳬쳭쳮쳯쳰쳱쳲쳳쳴쳵쳶쳷쳸쳹쳺쳻쳼쳽쳾쳿",
    "춀춁춂춃춄춅춆춇춈춉춊춋춌춍춎춏춐춑춒춓추축춖춗춘춙춚춛출춝춞춟춠춡춢춣춤춥춦춧춨충춪춫춬춭춮춯춰춱춲춳춴춵춶춷춸춹춺춻춼춽춾춿췀췁췂췃췄췅췆췇췈췉췊췋췌췍췎췏췐췑췒췓췔췕췖췗췘췙췚췛췜췝췞췟췠췡췢췣췤췥췦췧취췩췪췫췬췭췮췯췰췱췲췳췴췵췶췷췸췹췺췻췼췽췾췿",
    "캀캁캂캃캄캅캆캇캈캉캊캋캌캍캎캏캐캑캒캓캔캕캖캗캘캙캚캛캜캝캞캟캠캡캢캣캤캥캦캧캨캩캪캫캬캭캮캯캰캱캲캳캴캵캶캷캸캹캺캻캼캽캾캿컀컁컂컃컄컅컆컇컈컉컊컋컌컍컎컏컐컑컒컓컔컕컖컗컘컙컚컛컜컝컞컟컠컡컢컣커컥컦컧컨컩컪컫컬컭컮컯컰컱컲컳컴컵컶컷컸컹컺컻컼컽컾컿",
    "쾀쾁쾂쾃쾄쾅쾆쾇쾈쾉쾊쾋쾌쾍쾎쾏쾐쾑쾒쾓쾔쾕쾖쾗쾘쾙쾚쾛쾜쾝쾞쾟쾠쾡쾢쾣쾤쾥쾦쾧쾨쾩쾪쾫쾬쾭쾮쾯쾰쾱쾲쾳쾴쾵쾶쾷쾸쾹쾺쾻쾼쾽쾾쾿쿀쿁쿂쿃쿄쿅쿆쿇쿈쿉쿊쿋쿌쿍쿎쿏쿐쿑쿒쿓쿔쿕쿖쿗쿘쿙쿚쿛쿜쿝쿞쿟쿠쿡쿢쿣쿤쿥쿦쿧쿨쿩쿪쿫쿬쿭쿮쿯쿰쿱쿲쿳쿴쿵쿶쿷쿸쿹쿺쿻쿼쿽쿾쿿",
    "킀킁킂킃킄킅킆킇킈킉킊킋킌킍킎킏킐킑킒킓킔킕킖킗킘킙킚킛킜킝킞킟킠킡킢킣키킥킦킧킨킩킪킫킬킭킮킯킰킱킲킳킴킵킶킷킸킹킺킻킼킽킾킿타탁탂탃탄탅탆탇탈탉탊탋탌탍탎탏탐탑탒탓탔탕탖탗탘탙탚탛태택탞탟탠탡탢탣탤탥탦탧탨탩탪탫탬탭탮탯탰탱탲탳탴탵탶탷탸탹탺탻탼탽탾탿",
    "톀톁톂톃톄톅톆톇톈톉톊톋톌톍톎톏톐톑톒톓톔톕톖톗톘톙톚톛톜톝톞톟토톡톢톣톤톥톦톧톨톩톪톫톬톭톮톯톰톱톲톳톴통톶톷톸톹톺톻톼톽톾톿퇀퇁퇂퇃퇄퇅퇆퇇퇈퇉퇊퇋퇌퇍퇎퇏퇐퇑퇒퇓퇔퇕퇖퇗퇘퇙퇚퇛퇜퇝퇞퇟퇠퇡퇢퇣퇤퇥퇦퇧퇨퇩퇪퇫퇬퇭퇮퇯퇰퇱퇲퇳퇴퇵퇶퇷퇸퇹퇺퇻퇼퇽퇾퇿",
    "튀튁튂튃튄튅튆튇튈튉튊튋튌튍튎튏튐튑튒튓튔튕튖튗튘튙튚튛튜튝튞튟튠튡튢튣튤튥튦튧튨튩튪튫튬튭튮튯튰튱튲튳튴튵튶튷트특튺튻튼튽튾튿틀틁틂틃틄틅틆틇틈틉틊틋틌틍틎틏틐틑틒틓틔틕틖틗틘틙틚틛틜틝틞틟틠틡틢틣틤틥틦틧틨틩틪틫틬틭틮틯티틱틲틳틴틵틶틷틸틹틺틻틼틽틾틿",
    "펀펁펂펃펄펅펆펇펈펉펊펋펌펍펎펏펐펑펒펓펔펕펖펗페펙펚펛펜펝펞펟펠펡펢펣펤펥펦펧펨펩펪펫펬펭펮펯펰펱펲펳펴펵펶펷편펹펺펻펼펽펾펿폀폁폂폃폄폅폆폇폈평폊폋폌폍폎폏폐폑폒폓폔폕폖폗폘폙폚폛폜폝폞폟폠폡폢폣폤폥폦폧폨폩폪폫포폭폮폯폰폱폲폳폴폵폶폷폸폹폺폻폼폽폾폿",
    "풀풁풂풃풄풅풆풇품풉풊풋풌풍풎풏풐풑풒풓풔풕풖풗풘풙풚풛풜풝풞풟풠풡풢풣풤풥풦풧풨풩풪풫풬풭풮풯풰풱풲풳풴풵풶풷풸풹풺풻풼풽풾풿퓀퓁퓂퓃퓄퓅퓆퓇퓈퓉퓊퓋퓌퓍퓎퓏퓐퓑퓒퓓퓔퓕퓖퓗퓘퓙퓚퓛퓜퓝퓞퓟퓠퓡퓢퓣퓤퓥퓦퓧퓨퓩퓪퓫퓬퓭퓮퓯퓰퓱퓲퓳퓴퓵퓶퓷퓸퓹퓺퓻퓼퓽퓾퓿",
    "햀햁햂햃햄햅햆햇했행햊햋햌햍햎햏햐햑햒햓햔햕햖햗햘햙햚햛햜햝햞햟햠햡햢햣햤향햦햧햨햩햪햫햬햭햮햯햰햱햲햳햴햵햶햷햸햹햺햻햼햽햾햿헀헁헂헃헄헅헆헇허헉헊헋헌헍헎헏헐헑헒헓헔헕헖헗험헙헚헛헜헝헞헟헠헡헢헣헤헥헦헧헨헩헪헫헬헭헮헯헰헱헲헳헴헵헶헷헸헹헺헻헼헽헾헿",
    "횀횁횂횃횄횅횆횇횈횉횊횋회획횎횏횐횑횒횓횔횕횖횗횘횙횚횛횜횝횞횟횠횡횢횣횤횥횦횧효횩횪횫횬횭횮횯횰횱횲횳횴횵횶횷횸횹횺횻횼횽횾횿훀훁훂훃후훅훆훇훈훉훊훋훌훍훎훏훐훑훒훓훔훕훖훗훘훙훚훛훜훝훞훟훠훡훢훣훤훥훦훧훨훩훪훫훬훭훮훯훰훱훲훳훴훵훶훷훸훹훺훻훼훽훾훿",
    "힀힁힂힃힄힅힆힇히힉힊힋힌힍힎힏힐힑힒힓힔힕힖힗힘힙힚힛힜힝힞힟힠힡힢힣힤힥힦힧힨힩힪힫힬힭힮힯ힰힱힲힳힴힵힶힷힸힹힺힻힼힽힾힿퟀퟁퟂퟃퟄퟅퟆ퟇퟈퟉퟊ퟋퟌퟍퟎퟏퟐퟑퟒퟓퟔퟕퟖퟗퟘퟙퟚퟛퟜퟝퟞퟟퟠퟡퟢퟣퟤퟥퟦퟧퟨퟩퟪퟫퟬퟭퟮퟯퟰퟱퟲퟳퟴퟵퟶퟷퟸퟹퟺퟻ퟼퟽퟾퟿",
    "",
    "",
    "",
    "",
    "",
    "",
    "",
    "",
    "",
    "",
    "",
    "",
    "",
    "",
    "",
    "",
    "",
    "",
    "",
    "",
    "",
    "",
    "",
    "",
    "",
    "呂女廬旅濾礪閭驪麗黎力曆歷轢年憐戀撚漣煉璉秊練聯輦蓮連鍊列劣咽烈裂說廉念捻殮簾獵令囹寧嶺怜玲瑩羚聆鈴零靈領例禮醴隸惡了僚寮尿料樂燎療蓼遼龍暈阮劉杻柳流溜琉留硫紐類六戮陸倫崙淪輪律慄栗率隆利吏履易李梨泥理痢罹裏裡里離匿溺吝燐璘藺隣鱗麟林淋臨立笠粒狀炙識什茶刺",
    "婢嬨廒廙彩徭惘慎愈憎慠懲戴揄搜摒敖晴朗望杖歹殺流滛滋漢瀞煮瞧爵犯猪瑱甆画瘝瘟益盛直睊着磌窱節类絛練缾者荒華蝹襁覆視調諸請謁諾諭謹變贈輸遲醙鉶陼難靖韛響頋頻鬒龜𢡊𢡄𣏕㮝䀘䀹𥉉𥳐𧻓齃龎﫚﫛﫜﫝﫞﫟﫠﫡﫢﫣﫤﫥﫦﫧﫨﫩﫪﫫﫬﫭﫮﫯﫰﫱﫲﫳﫴﫵﫶﫷﫸﫹﫺﫻﫼﫽﫾﫿",
    "ﮀﮁﮂﮃﮄﮅﮆﮇﮈﮉﮊﮋﮌﮍﮎﮏﮐﮑﮒﮓﮔﮕﮖﮗﮘﮙﮚﮛﮜﮝﮞﮟﮠﮡﮢﮣﮤﮥﮦﮧﮨﮩﮪﮫﮬﮭﮮﮯﮰﮱ﮲﮳﮴﮵﮶﮷﮸﮹﮺﮻﮼﮽﮾﮿﯀﯁﯂﯃﯄﯅﯆﯇﯈﯉﯊﯋﯌﯍﯎﯏﯐﯑﯒ﯓﯔﯕﯖﯗﯘﯙﯚﯛﯜﯝﯞﯟﯠﯡﯢﯣﯤﯥﯦﯧﯨﯩﯪﯫﯬﯭﯮﯯﯰﯱﯲﯳﯴﯵﯶﯷﯸﯹﯺﯻﯼﯽﯾﯿ",
    "ﲀﲁﲂﲃﲄﲅﲆﲇﲈﲉﲊﲋﲌﲍﲎﲏﲐﲑﲒﲓﲔﲕﲖﲗﲘﲙﲚﲛﲜﲝﲞﲟﲠﲡﲢﲣﲤﲥﲦﲧﲨﲩﲪﲫﲬﲭﲮﲯﲰﲱﲲﲳﲴﲵﲶﲷﲸﲹﲺﲻﲼﲽﲾﲿﳀﳁﳂﳃﳄﳅﳆﳇﳈﳉﳊﳋﳌﳍﳎﳏﳐﳑﳒﳓﳔﳕﳖﳗﳘﳙﳚﳛﳜﳝﳞﳟﳠﳡﳢﳣﳤﳥﳦﳧﳨﳩﳪﳫﳬﳭﳮﳯﳰﳱﳲﳳﳴﳵﳶﳷﳸﳹﳺﳻﳼﳽﳾﳿ",
    "ﶀﶁﶂﶃﶄﶅﶆﶇﶈﶉﶊﶋﶌﶍﶎﶏ﶐﶑ﶒﶓﶔﶕﶖﶗﶘﶙﶚﶛﶜﶝﶞﶟﶠﶡﶢﶣﶤﶥﶦﶧﶨﶩﶪﶫﶬﶭﶮﶯﶰﶱﶲﶳﶴﶵﶶﶷﶸﶹﶺﶻﶼﶽﶾﶿﷀﷁﷂﷃﷄﷅﷆﷇ﷈﷉﷊﷋﷌﷍﷎﷏﷐﷑﷒﷓﷔﷕﷖﷗﷘﷙﷚﷛﷜﷝﷞﷟﷠﷡﷢﷣﷤﷥﷦﷧﷨﷩﷪﷫﷬﷭﷮﷯ﷰﷱﷲﷳﷴﷵﷶﷷﷸﷹﷺﷻ﷼﷽﷾﷿",
    "ﺀﺁﺂﺃﺄﺅﺆﺇﺈﺉﺊﺋﺌﺍﺎﺏﺐﺑﺒﺓﺔﺕﺖﺗﺘﺙﺚﺛﺜﺝﺞﺟﺠﺡﺢﺣﺤﺥﺦﺧﺨﺩﺪﺫﺬﺭﺮﺯﺰﺱﺲﺳﺴﺵﺶﺷﺸﺹﺺﺻﺼﺽﺾﺿﻀﻁﻂﻃﻄﻅﻆﻇﻈﻉﻊﻋﻌﻍﻎﻏﻐﻑﻒﻓﻔﻕﻖﻗﻘﻙﻚﻛﻜﻝﻞﻟﻠﻡﻢﻣﻤﻥﻦﻧﻨﻩﻪﻫﻬﻭﻮﻯﻰﻱﻲﻳﻴﻵﻶﻷﻸﻹﻺﻻﻼ﻽﻾﻿",
    "ﾀﾁﾂﾃﾄﾅﾆﾇﾈﾉﾊﾋﾌﾍﾎﾏﾐﾑﾒﾓﾔﾕﾖﾗﾘﾙﾚﾛﾜﾝﾞﾟﾠﾡﾢﾣﾤﾥﾦﾧﾨﾩﾪﾫﾬﾭﾮﾯﾰﾱﾲﾳﾴﾵﾶﾷﾸﾹﾺﾻﾼﾽﾾ﾿￀￁ￂￃￄￅￆￇ￈￉ￊￋￌￍￎￏ￐￑ￒￓￔￕￖￗ￘￙ￚￛￜ￝￞￟￠￡￢￣￤￥￦￧￨￩￪￫￬￭￮￯￰￱￲￳￴￵￶￷￸￹￺￻￼�￾￿">>

\* the row hh of the k-th string of HighHalves
RowOf(k) == IF k <= 216 THEN k - 1 ELSE k + 7

\* the character of each code unit below 128
BasicChars ==
  [n \in (1..95) \cup (97..127) |->
     IF n < 96 THEN SubSeq(BasicLatin[1], n, n)
     ELSE SubSeq(BasicLatin[2], n - 96, n - 96)]

\* the code unit of each of these characters
BasicCode ==
  [c \in {BasicChars[n] : n \in DOMAIN BasicChars} |->
     CHOOSE n \in DOMAIN BasicChars : BasicChars[n] = c]

\* the characters of each string of HighHalves
HighSets ==
  [k \in 1..Len(HighHalves) |-> {SubSeq(HighHalves[k], i, i) : i \in 1..128}]

\* c.charCodeAt(0) for a text of one character
CharCode(c) ==
  IF c \in DOMAIN BasicCode THEN BasicCode[c]
  ELSE LET k == CHOOSE k \in 1..Len(HighHalves) : c \in HighSets[k]
           i == CHOOSE i \in 1..128 : SubSeq(HighHalves[k], i, i) = c
       IN  RowOf(k) * 256 + 127 + i

\* the code units of a text: s.charCodeAt(0), s.charCodeAt(1), ...
CodeUnits(s) == [i \in 1..Len(s) |-> CharCode(SubSeq(s, i, i))]

\* the lower-case mappings of the Unicode Character Database (version 17)
\* for the code units of the Basic Multilingual Plane that map to one code
\* unit: <<first, last, step, delta>> maps each of first, first + step, ..,
\* last to itself plus delta
LowerRanges ==
  <<<<65, 90, 1, 32>>, <<192, 214, 1, 32>>, <<216, 222, 1, 32>>, <<256, 302,
    2, 1>>, <<306, 310, 2, 1>>, <<313, 327, 2, 1>>, <<330, 374, 2, 1>>, <<376,
    376, 1, -121>>, <<377, 381, 2, 1>>, <<385, 385, 1, 210>>, <<386, 388, 2,
    1>>, <<390, 390, 1, 206>>, <<391, 391, 1, 1>>, <<393, 394, 1, 205>>,
    <<395, 395, 1, 1>>, <<398, 398, 1, 79>>, <<399, 399, 1, 202>>, <<400, 400,
    1, 203>>, <<401, 401, 1, 1>>, <<403, 403, 1, 205>>, <<404, 404, 1, 207>>,
    <<406, 406, 1, 211>>, <<407, 407, 1, 209>>, <<408, 408, 1, 1>>, <<412,
    412, 1, 211>>, <<413, 413, 1, 213>>, <<415, 415, 1, 214>>, <<416, 420, 2,
    1>>, <<422, 422, 1, 218>>, <<423, 423, 1, 1>>, <<425, 425, 1, 218>>,
    <<428, 428, 1, 1>>, <<430, 430, 1, 218>>, <<431, 431, 1, 1>>, <<433, 434,
    1, 217>>, <<435, 437, 2, 1>>, <<439, 439, 1, 219>>, <<440, 440, 1, 1>>,
    <<444, 444, 1, 1>>, <<452, 452, 1, 2>>, <<453, 453, 1, 1>>, <<455, 455, 1,
    2>>, <<456, 456, 1, 1>>, <<458, 458, 1, 2>>, <<459, 475, 2, 1>>, <<478,
    494, 2, 1>>, <<497, 497, 1, 2>>, <<498, 500, 2, 1>>, <<502, 502, 1, -97>>,
    <<503, 503, 1, -56>>, <<504, 542, 2, 1>>, <<544, 544, 1, -130>>, <<546,
    562, 2, 1>>, <<570, 570, 1, 10795>>, <<571, 571, 1, 1>>, <<573, 573, 1,
    -163>>, <<574, 574, 1, 10792>>, <<577, 577, 1, 1>>, <<579, 579, 1, -195>>,
    <<580, 580, 1, 69>>, <<581, 581, 1, 71>>, <<582, 590, 2, 1>>, <<880, 882,
    2, 1>>, <<886, 886, 1, 1>>, <<895, 895, 1, 116>>, <<902, 902, 1, 38>>,
    <<904, 906, 1, 37>>, <<908, 908, 1, 64>>, <<910, 911, 1, 63>>, <<913, 929,
    1, 32>>, <<931, 939, 1, 32>>, <<975, 975, 1, 8>>, <<984, 1006, 2, 1>>,
    <<1012, 1012, 1, -60>>, <<1015, 1015, 1, 1>>, <<1017, 1017, 1, -7>>,
    <<1018, 1018, 1, 1>>, <<1021, 1023, 1, -130>>, <<1024, 1039, 1, 80>>,
    <<1040, 1071, 1, 32>>, <<1120, 1152, 2, 1>>, <<1162, 1214, 2, 1>>, <<1216,
    1216, 1, 15>>, <<1217, 1229, 2, 1>>, <<1232, 1326, 2, 1>>, <<1329, 1366,
    1, 48>>, <<4256, 4293, 1, 7264>>, <<4295, 4295, 1, 7264>>, <<4301, 4301,
    1, 7264>>, <<5024, 5103, 1, 38864>>, <<5104, 5109, 1, 8>>, <<7305, 7305,
    1, 1>>, <<7312, 7354, 1, -3008>>, <<7357, 7359, 1, -3008>>, <<7680, 7828,
    2, 1>>, <<7838, 7838, 1, -7615>>, <<7840, 7934, 2, 1>>, <<7944, 7951, 1,
    -8>>, <<7960, 7965, 1, -8>>, <<7976, 7983, 1, -8>>, <<7992, 7999, 1, -8>>,
    <<8008, 8013, 1, -8>>, <<8025, 8031, 2, -8>>, <<8040, 8047, 1, -8>>,
    <<8072, 8079, 1, -8>>, <<8088, 8095, 1, -8>>, <<8104, 8111, 1, -8>>,
    <<8120, 8121, 1, -8>>, <<8122, 8123, 1, -74>>, <<8124, 8124, 1, -9>>,
    <<8136, 8139, 1, -86>>, <<8140, 8140, 1, -9>>, <<8152, 8153, 1, -8>>,
    <<8154, 8155, 1, -100>>, <<8168, 8169, 1, -8>>, <<8170, 8171, 1, -112>>,
    <<8172, 8172, 1, -7>>, <<8184, 8185, 1, -128>>, <<8186, 8187, 1, -126>>,
    <<8188, 8188, 1, -9>>, <<8486, 8486, 1, -7517>>, <<8490, 8490, 1, -8383>>,
    <<8491, 8491, 1, -8262>>, <<8498, 8498, 1, 28>>, <<8544, 8559, 1, 16>>,
    <<8579, 8579, 1, 1>>, <<9398, 9423, 1, 26>>, <<11264, 11311, 1, 48>>,
    <<11360, 11360, 1, 1>>, <<11362, 11362, 1, -10743>>, <<11363, 11363, 1,
    -3814>>, <<11364, 11364, 1, -10727>>, <<11367, 11371, 2, 1>>, <<11373,
    11373, 1, -10780>>, <<11374, 11374, 1, -10749>>, <<11375, 11375, 1,
    -10783>>, <<11376, 11376, 1, -10782>>, <<11378, 11378, 1, 1>>, <<11381,
    11381, 1, 1>>, <<11390, 11391, 1, -10815>>, <<11392, 11490, 2, 1>>,
    <<11499, 11501, 2, 1>>, <<11506, 11506, 1, 1>>, <<42560, 42604, 2, 1>>,
    <<42624, 42650, 2, 1>>, <<42786, 42798, 2, 1>>, <<42802, 42862, 2, 1>>,
    <<42873, 42875, 2, 1>>, <<42877, 42877, 1, -35332>>, <<42878, 42886, 2,
    1>>, <<42891, 42891, 1, 1>>, <<42893, 42893, 1, -42280>>, <<42896, 42898,
    2, 1>>, <<42902, 42920, 2, 1>>, <<42922, 42922, 1, -42308>>, <<42923,
    42923, 1, -42319>>, <<42924, 42924, 1, -42315>>, <<42925, 42925, 1,
    -42305>>, <<42926, 42926, 1, -42308>>, <<42928, 42928, 1, -42258>>,
    <<42929, 42929, 1, -42282>>, <<42930, 42930, 1, -42261>>, <<42931, 42931,
    1, 928>>, <<42932, 42946, 2, 1>>, <<42948, 42948, 1, -48>>, <<42949,
    42949, 1, -42307>>, <<42950, 42950, 1, -35384>>, <<42951, 42953, 2, 1>>,
    <<42955, 42955, 1, -42343>>, <<42956, 42970, 2, 1>>, <<42972, 42972, 1,
    -42561>>, <<42997, 42997, 1, 1>>, <<65313, 65338, 1, 32>>>>

\* the code units with a lower-case form of their own
UpperUnits ==
  UNION {{LowerRanges[k][1] + LowerRanges[k][3] * n :
            n \in 0..((LowerRanges[k][2] - LowerRanges[k][1]) \div LowerRanges[k][3])} :
         k \in 1..Len(LowerRanges)}

\* the lower-case form of each of them
LowerOf ==
  [u \in UpperUnits |->
     LET k == CHOOSE k \in 1..Len(LowerRanges) :
                /\ LowerRanges[k][1] <= u /\ u <= LowerRanges[k][2]
                /\ (u - LowerRanges[k][1]) % LowerRanges[k][3] = 0
     IN  u + LowerRanges[k][4]]

\* the code units with the Unicode property Cased, as ranges <<first, last>>
CasedRanges ==
  <<<<65, 90>>, <<97, 122>>, <<170, 170>>, <<181, 181>>, <<186, 186>>, <<192,
    214>>, <<216, 246>>, <<248, 442>>, <<444, 447>>, <<452, 659>>, <<662, 696>>, <<704, 705>>, <<736, 740>>, <<837, 837>>, <<880, 883>>, <<886,
    887>>, <<890, 893>>, <<895, 895>>, <<902, 902>>, <<904, 906>>, <<908,
    908>>, <<910, 929>>, <<931, 1013>>, <<1015, 1153>>, <<1162, 1327>>,
    <<1329, 1366>>, <<1376, 1416>>, <<4256, 4293>>, <<4295, 4295>>, <<4301,
    4301>>, <<4304, 4346>>, <<4348, 4351>>, <<5024, 5109>>, <<5112, 5117>>,
    <<7296, 7306>>, <<7312, 7354>>, <<7357, 7359>>, <<7424, 7615>>, <<7680,
    7957>>, <<7960, 7965>>, <<7968, 8005>>, <<8008, 8013>>, <<8016, 8023>>,
    <<8025, 8025>>, <<8027, 8027>>, <<8029, 8029>>, <<8031, 8061>>, <<8064,
    8116>>, <<8118, 8124>>, <<8126, 8126>>, <<8130, 8132>>, <<8134, 8140>>,
    <<8144, 8147>>, <<8150, 8155>>, <<8160, 8172>>, <<8178, 8180>>, <<8182,
    8188>>, <<8305, 8305>>, <<8319, 8319>>, <<8336, 8348>>, <<8450, 8450>>,
    <<8455, 8455>>, <<8458, 8467>>, <<8469, 8469>>, <<8473, 8477>>, <<8484,
    8484>>, <<8486, 8486>>, <<8488, 8488>>, <<8490, 8493>>, <<8495, 8500>>,
    <<8505, 8505>>, <<8508, 8511>>, <<8517, 8521>>, <<8526, 8526>>, <<8544,
    8575>>, <<8579, 8580>>, <<9398, 9449>>, <<11264, 11492>>, <<11499,
    11502>>, <<11506, 11507>>, <<11520, 11557>>, <<11559, 11559>>, <<11565,
    11565>>, <<42560, 42605>>, <<42624, 42653>>, <<42786, 42887>>, <<42891,
    42894>>, <<42896, 42972>>, <<42993, 42998>>, <<43000, 43002>>, <<43824,
    43866>>, <<43868, 43881>>, <<43888, 43967>>, <<64256, 64262>>, <<64275,
    64279>>, <<65313, 65338>>, <<65345, 65370>>>>

\* the code units with the Unicode property Case_Ignorable
CaseIgnorableRanges ==
  <<<<39, 39>>, <<46, 46>>, <<58, 58>>, <<94, 94>>, <<96, 96>>, <<168, 168>>, <<173,
    173>>, <<175, 175>>, <<180, 180>>, <<183, 184>>, <<688, 879>>, <<884,
    885>>, <<890, 890>>, <<900, 901>>, <<903, 903>>, <<1155, 1161>>, <<1369,
    1369>>, <<1375, 1375>>, <<1425, 1469>>, <<1471, 1471>>, <<1473, 1474>>,
    <<1476, 1477>>, <<1479, 1479>>, <<1524, 1524>>, <<1536, 1541>>, <<1552,
    1562>>, <<1564, 1564>>, <<1600, 1600>>, <<1611, 1631>>, <<1648, 1648>>,
    <<1750, 1757>>, <<1759, 1768>>, <<1770, 1773>>, <<1807, 1807>>, <<1809,
    1809>>, <<1840, 1866>>, <<1958, 1968>>, <<2027, 2037>>, <<2042, 2042>>,
    <<2045, 2045>>, <<2070, 2093>>, <<2137, 2139>>, <<2184, 2184>>, <<2192,
    2193>>, <<2199, 2207>>, <<2249, 2306>>, <<2362, 2362>>, <<2364, 2364>>,
    <<2369, 2376>>, <<2381, 2381>>, <<2385, 2391>>, <<2402, 2403>>, <<2417,
    2417>>, <<2433, 2433>>, <<2492, 2492>>, <<2497, 2500>>, <<2509, 2509>>,
    <<2530, 2531>>, <<2558, 2558>>, <<2561, 2562>>, <<2620, 2620>>, <<2625,
    2626>>, <<2631, 2632>>, <<2635, 2637>>, <<2641, 2641>>, <<2672, 2673>>,
    <<2677, 2677>>, <<2689, 2690>>, <<2748, 2748>>, <<2753, 2757>>, <<2759,
    2760>>, <<2765, 2765>>, <<2786, 2787>>, <<2810, 2815>>, <<2817, 2817>>,
    <<2876, 2876>>, <<2879, 2879>>, <<2881, 2884>>, <<2893, 2893>>, <<2901,
    2902>>, <<2914, 2915>>, <<2946, 2946>>, <<3008, 3008>>, <<3021, 3021>>,
    <<3072, 3072>>, <<3076, 3076>>, <<3132, 3132>>, <<3134, 3136>>, <<3142,
    3144>>, <<3146, 3149>>, <<3157, 3158>>, <<3170, 3171>>, <<3201, 3201>>,
    <<3260, 3260>>, <<3263, 3263>>, <<3270, 3270>>, <<3276, 3277>>, <<3298,
    3299>>, <<3328, 3329>>, <<3387, 3388>>, <<3393, 3396>>, <<3405, 3405>>,
    <<3426, 3427>>, <<3457, 3457>>, <<3530, 3530>>, <<3538, 3540>>, <<3542,
    3542>>, <<3633, 3633>>, <<3636, 3642>>, <<3654, 3662>>, <<3761, 3761>>,
    <<3764, 3772>>, <<3782, 3782>>, <<3784, 3790>>, <<3864, 3865>>, <<3893,
    3893>>, <<3895, 3895>>, <<3897, 3897>>, <<3953, 3966>>, <<3968, 3972>>,
    <<3974, 3975>>, <<3981, 3991>>, <<3993, 4028>>, <<4038, 4038>>, <<4141,
    4144>>, <<4146, 4151>>, <<4153, 4154>>, <<4157, 4158>>, <<4184, 4185>>,
    <<4190, 4192>>, <<4209, 4212>>, <<4226, 4226>>, <<4229, 4230>>, <<4237,
    4237>>, <<4253, 4253>>, <<4348, 4348>>, <<4957, 4959>>, <<5906, 5908>>,
    <<5938, 5939>>, <<5970, 5971>>, <<6002, 6003>>, <<6068, 6069>>, <<6071,
    6077>>, <<6086, 6086>>, <<6089, 6099>>, <<6103, 6103>>, <<6109, 6109>>,
    <<6155, 6159>>, <<6211, 6211>>, <<6277, 6278>>, <<6313, 6313>>, <<6432,
    6434>>, <<6439, 6440>>, <<6450, 6450>>, <<6457, 6459>>, <<6679, 6680>>,
    <<6683, 6683>>, <<6742, 6742>>, <<6744, 6750>>, <<6752, 6752>>, <<6754,
    6754>>, <<6757, 6764>>, <<6771, 6780>>, <<6783, 6783>>, <<6823, 6823>>,
    <<6832, 6877>>, <<6880, 6891>>, <<6912, 6915>>, <<6964, 6964>>, <<6966,
    6970>>, <<6972, 6972>>, <<6978, 6978>>, <<7019, 7027>>, <<7040, 7041>>,
    <<7074, 7077>>, <<7080, 7081>>, <<7083, 7085>>, <<7142, 7142>>, <<7144,
    7145>>, <<7149, 7149>>, <<7151, 7153>>, <<7212, 7219>>, <<7222, 7223>>,
    <<7288, 7293>>, <<7376, 7378>>, <<7380, 7392>>, <<7394, 7400>>, <<7405,
    7405>>, <<7412, 7412>>, <<7416, 7417>>, <<7468, 7530>>, <<7544, 7544>>,
    <<7579, 7679>>, <<8125, 8125>>, <<8127, 8129>>, <<8141, 8143>>, <<8157,
    8159>>, <<8173, 8175>>, <<8189, 8190>>, <<8203, 8207>>, <<8216, 8217>>,
    <<8228, 8228>>, <<8231, 8231>>, <<8234, 8238>>, <<8288, 8292>>, <<8294,
    8303>>, <<8305, 8305>>, <<8319, 8319>>, <<8336, 8348>>, <<8400, 8432>>,
    <<11388, 11389>>, <<11503, 11505>>, <<11631, 11631>>, <<11647, 11647>>,
    <<11744, 11775>>, <<11823, 11823>>, <<12293, 12293>>, <<12330, 12333>>,
    <<12337, 12341>>, <<12347, 12347>>, <<12441, 12446>>, <<12540, 12542>>,
    <<40981, 40981>>, <<42232, 42237>>, <<42508, 42508>>, <<42607, 42610>>,
    <<42612, 42621>>, <<42623, 42623>>, <<42652, 42655>>, <<42736, 42737>>,
    <<42752, 42785>>, <<42864, 42864>>, <<42888, 42890>>, <<42993, 42996>>,
    <<43000, 43001>>, <<43010, 43010>>, <<43014, 43014>>, <<43019, 43019>>,
    <<43045, 43046>>, <<43052, 43052>>, <<43204, 43205>>, <<43232, 43249>>,
    <<43263, 43263>>, <<43302, 43309>>, <<43335, 43345>>, <<43392, 43394>>,
    <<43443, 43443>>, <<43446, 43449>>, <<43452, 43453>>, <<43471, 43471>>,
    <<43493, 43494>>, <<43561, 43566>>, <<43569, 43570>>, <<43573, 43574>>,
    <<43587, 43587>>, <<43596, 43596>>, <<43632, 43632>>, <<43644, 43644>>,
    <<43696, 43696>>, <<43698, 43700>>, <<43703, 43704>>, <<43710, 43711>>,
    <<43713, 43713>>, <<43741, 43741>>, <<43756, 43757>>, <<43763, 43764>>,
    <<43766, 43766>>, <<43867, 43871>>, <<43881, 43883>>, <<44005, 44005>>,
    <<44008, 44008>>, <<44013, 44013>>, <<64286, 64286>>, <<64434, 64450>>,
    <<65024, 65039>>, <<65043, 65043>>, <<65056, 65071>>, <<65106, 65106>>, <<65109, 65109>>,
    <<65279, 65279>>, <<65287, 65287>>, <<65294, 65294>>, <<65306, 65306>>, <<65342, 65342>>,
    <<65344, 65344>>, <<65392, 65392>>, <<65438, 65439>>, <<65507, 65507>>,
    <<65529, 65531>>>>

Cased == UNION {CasedRanges[k][1]..CasedRanges[k][2] : k \in 1..Len(CasedRanges)}
CaseIgnorable ==
  UNION {CaseIgnorableRanges[k][1]..CaseIgnorableRanges[k][2] :
         k \in 1..Len(CaseIgnorableRanges)}

\* going from position i in direction dir (-1 or 1) over the case-ignorable
\* units, the first other unit is a cased one
RECURSIVE FollowedByCased(_, _, _)
FollowedByCased(u, i, dir) ==
  LET j == i + dir
  IN  IF j < 1 \/ j > Len(u) THEN FALSE
      ELSE IF u[j] \in CaseIgnorable THEN FollowedByCased(u, j, dir)
      ELSE u[j] \in Cased

\* the condition Final_Sigma of the Unicode case mapping as the engine
\* evaluates it for the unit at position i: a cased letter before it, none
\* after it
FinalSigma(u, i) == FollowedByCased(u, i, -1) /\ ~FollowedByCased(u, i, 1)

\* the lower-case form of the unit at position i of u: a capital sigma
\* (U+03A3) in final position becomes the final small sigma (U+03C2), and
\* U+0130 becomes the two units U+0069 U+0307
LowerAt(u, i) ==
  IF u[i] = 931 /\ FinalSigma(u, i) THEN <<962>>
  ELSE IF u[i] = 304 THEN <<105, 775>>
  ELSE IF u[i] \in UpperUnits THEN <<LowerOf[u[i]]>>
  ELSE <<u[i]>>

RECURSIVE ToLowerFrom(_, _)
ToLowerFrom(u, i) ==
  IF i > Len(u) THEN <<>> ELSE LowerAt(u, i) \o ToLowerFrom(u, i + 1)

\* s.toLowerCase(), as code units
ToLowerCase(s) == ToLowerFrom(CodeUnits(s), 1)

\* [a-z0-9], as code units
SlugChars == (97..122) \cup (48..57)
IsSlugChar(n) == n \in SlugChars

\* u.replace(/[^a-z0-9]+/g, '-'): every run of other characters becomes one
\* '-'; u is a sequence of code units, the result is a string
RECURSIVE Dashed(_, _)
Dashed(u, inRun) ==
  IF Len(u) = 0 THEN ""
  ELSE IF IsSlugChar(u[1])
       THEN BasicChars[u[1]] \o Dashed(Tail(u), FALSE)
       ELSE (IF inRun THEN "" ELSE "-") \o Dashed(Tail(u), TRUE)

\* s.replace(/(^-|-$)/g, ''): one '-' less at the start and at the end
StripDashes(s) ==
  LET t == IF Len(s) > 0 /\ SubSeq(s, 1, 1) = "-" THEN SubSeq(s, 2, Len(s)) ELSE s
  IN  IF Len(t) > 0 /\ SubSeq(t, Len(t), Len(t)) = "-"
      THEN SubSeq(t, 1, Len(t) - 1)
      ELSE t

\* title.toLowerCase().replace(/[^a-z0-9]+/g, '-').replace(/(^-|-$)/g, '')
SlugBase(title) == StripDashes(Dashed(ToLowerCase(title), FALSE))

\* `${slugBase}-${i + 1}` for the job at index i of the seed's array
SeedSlug(title, i) == SlugBase(title) \o "-" \o ToString(i + 1)

\* s.includes(t), for two sequences of code units
Includes(s, t) ==
  \E i \in 1..(Len(s) + 1) :
    i + Len(t) - 1 <= Len(s) /\ SubSeq(s, i, i + Len(t) - 1) = t

\* s.split(',')
RECURSIVE SplitComma(_)
SplitComma(s) ==
  IF \E i \in 1..Len(s) : SubSeq(s, i, i) = ","
  THEN LET i == CHOOSE i \in 1..Len(s) :
                  /\ SubSeq(s, i, i) = ","
                  /\ \A j \in 1..(i - 1) : SubSeq(s, j, j) # ","
       IN  <<SubSeq(s, 1, i - 1)>> \o SplitComma(SubSeq(s, i + 1, Len(s)))
  ELSE <<s>>

\* queryParams[name] || dflt for a text parameter
TextParam(q, name, dflt) ==
  IF name \in DOMAIN q /\ Truthy(q[name]) THEN q[name] ELSE dflt

\* parseInt(queryParams[name] || dflt, 10); the query carries the number a
\* decimal numeral parses to
IntParam(q, name, dflt) == IF name \in DOMAIN q THEN q[name] ELSE dflt

\* tagsParamTrimmed ? tagsParamTrimmed.split(',').map(trim).filter(Boolean) : []
TagsParam(q) ==
  LET parts == SplitComma(Trim(TextParam(q, "tags", "")))
  IN  {Trim(parts[i]) : i \in 1..Len(parts)} \ {""}

\* table.toArray(): the records in the order of the primary key
ToArray(t) ==
  [k \in 1..Cardinality(DOMAIN t) |->
     t[CHOOSE i \in DOMAIN t : Cardinality({j \in DOMAIN t : j < i}) = k - 1]]

\* items.sort((a, b) => key(a) - key(b)), a stable sort; key[i] is the sort
\* key of s[i]
SortedBy(s, key) ==
  [k \in 1..Len(s) |->
     s[CHOOSE i \in 1..Len(s) :
         Cardinality({j \in 1..Len(s) :
            key[j] < key[i] \/ (key[j] = key[i] /\ j < i)}) = k - 1]]

\* (a variant that lower-cases the slug as well)
JobMatches_LowerSlug(j, searchLower) ==
  Len(searchLower) > 0 =>
    (Includes(ToLowerCase(j.title), searchLower)
       \/ Includes(ToLowerCase(j.slug), searchLower))

\* searchLower ? j.title.toLowerCase().includes(searchLower)
\*                 || j.slug.includes(searchLower) : true
JobMatches(j, searchLower) ==
  Len(searchLower) > 0 =>
    (Includes(ToLowerCase(j.title), searchLower)
       \/ Includes(CodeUnits(j.slug), searchLower))

\* the three filters of GET /jobs
FilterJobs(t, q) ==
  LET status == TextParam(q, "status", "")
      searchLower == ToLowerCase(TextParam(q, "search", ""))
      tags == TagsParam(q)
      Keep(j) ==
        /\ (Truthy(status) => j.status = status)
        /\ JobMatches(j, searchLower)
        /\ (tags # {} => j.tags \cap tags # {})
  IN  SelectSeq(ToArray(t), Keep)

\* the two sorts of GET /jobs; any other sort parameter leaves the order
SortJobs(items, q) ==
  LET sort == TextParam(q, "sort", "order")
  IN  IF sort = "order"
      THEN SortedBy(items, [i \in 1..Len(items) |-> items[i].order])
      ELSE IF sort = "createdAt:desc"
      THEN SortedBy(items, [i \in 1..Len(items) |-> 0 - items[i].createdAt])
      ELSE items

\* the response of GET /jobs
ListJobs(t, q) ==
  paginate(SortJobs(FilterJobs(t, q), q), IntParam(q, "page", 1),
           IntParam(q, "pageSize", 10))

\* the two filters of GET /candidates
FilterCandidates(t, q) ==
  LET stage == TextParam(q, "stage", "")
      searchLower == ToLowerCase(TextParam(q, "search", ""))
      Keep(c) ==
        /\ (Truthy(stage) => c.stage = stage)
        /\ (Len(searchLower) > 0 =>
              (Includes(ToLowerCase(c.name), searchLower)
                 \/ Includes(ToLowerCase(c.email), searchLower)))
  IN  SelectSeq(ToArray(t), Keep)

\* the response of GET /candidates
ListCandidates(t, q) ==
  LET all == FilterCandidates(t, q)
  IN  paginate(SortedBy(all, [i \in 1..Len(all) |-> 0 - all[i].createdAt]),
               IntParam(q, "page", 1), IntParam(q, "pageSize", 25))

(***************************************************************************)
(* Store operations                                                        *)
(***************************************************************************)
\* table.put(rec): insert or replace by primary key
Put(t, rec) ==
  [i \in (DOMAIN t) \cup {rec.id} |-> IF i = rec.id THEN rec ELSE t[i]]

\* db.jobs.where('slug').equals(s).first() finds a record
SlugExists(t, s) == \E i \in DOMAIN t : t[i].slug = s

\* (await db.jobs.orderBy('order').last())?.order ?? -1
LastOrder(t) ==
  IF DOMAIN t = {} THEN -1
  ELSE CHOOSE o \in {t[i].order : i \in DOMAIN t} :
         \A i \in DOMAIN t : t[i].order <= o

\* (a variant without the transaction: the updates are separate operations)
JobsIdle_NoTransaction == TRUE

\* IndexedDB runs a store operation on db.jobs only while no readwrite
\* transaction on db.jobs is open (db.transaction('rw', db.jobs, ...))
JobsIdle == txOwner = 0

(***************************************************************************)
(* Requests                                                                *)
(***************************************************************************)
NoJob == [id |-> 0]

Idle ==
  [kind |-> "none", pc |-> "idle", id |-> 0, body |-> <<>>, toOrder |-> <<>>,
   coin |-> FALSE, job |-> NoJob, all |-> <<>>, last |-> -1, newId |-> 0,
   k |-> 0, at |-> 0, outcome |-> "", wrote |-> FALSE,
   t0 |-> 0, ev |-> <<>>, query |-> <<>>, result |-> <<>>]

\* the HTTP status of a finished request; a handler that throws is answered
\* with 500 by the mock server
Status(r) ==
  CASE req[r].outcome = "ok" -> 200
    [] req[r].outcome = "slug" -> 400
    [] req[r].outcome = "note" -> 400
    [] req[r].outcome = "notfound" -> 404
    [] req[r].outcome = "injected" -> 500
    [] req[r].outcome = "thrown" -> 500
    [] OTHER -> 0

\* return: the handler's locals are gone, the response stays; wrote records
\* whether the request has written to the store
Done(r, what) ==
  [Idle EXCEPT !.kind = req[r].kind, !.pc = "done", !.outcome = what,
               !.wrote = req[r].wrote]

\* (a variant that never finds the flag set)
AlreadySeeded_Never == FALSE

\* seeded?.value
AlreadySeeded == seeded

\* a request is issued into the lowest free slot
Free(r) == req[r].pc \in {"idle", "done"}
CanStart(r) ==
  /\ issued < MaxReq
  /\ Free(r)
  /\ \A q \in Req : q < r => ~Free(q)

\* the bodies of POST /jobs that carry the title "Engineer" and one of the slugs
PostBodies(slugs) == {[title |-> "Engineer", slug |-> s] : s \in slugs}

StartPostJobs(r, bodies) ==
  /\ CanStart(r)
  /\ \E b \in bodies, c \in BOOLEAN :
       req' = [req EXCEPT ![r] =
         [Idle EXCEPT !.kind = "postJobs", !.pc = "seed", !.body = b, !.coin = c]]
  /\ issued' = issued + 1
  /\ UNCHANGED <<tables, now, txOwner, view>>

StartPatchJob(r, ids, bodies) ==
  /\ CanStart(r)
  /\ \E i \in ids, b \in bodies, c \in BOOLEAN :
       req' = [req EXCEPT ![r] =
         [Idle EXCEPT !.kind = "patchJob", !.pc = "seed", !.id = i,
                      !.body = b, !.coin = c]]
  /\ issued' = issued + 1
  /\ UNCHANGED <<tables, now, txOwner, view>>

StartReorder(r, ids, toOrders) ==
  /\ CanStart(r)
  /\ \E i \in ids, t \in toOrders, c \in BOOLEAN :
       req' = [req EXCEPT ![r] =
         [Idle EXCEPT !.kind = "reorder", !.pc = "seed", !.id = i,
                      !.toOrder = t, !.coin = c]]
  /\ issued' = issued + 1
  /\ UNCHANGED <<tables, now, txOwner, view>>

StartGetJobs(r, queries) ==
  /\ CanStart(r)
  /\ \E q \in queries :
       req' = [req EXCEPT ![r] =
         [Idle EXCEPT !.kind = "getJobs", !.pc = "seed", !.query = q]]
  /\ issued' = issued + 1
  /\ UNCHANGED <<tables, now, txOwner, view>>

StartGetCandidates(r, queries) ==
  /\ CanStart(r)
  /\ \E q \in queries :
       req' = [req EXCEPT ![r] =
         [Idle EXCEPT !.kind = "getCandidates", !.pc = "seed", !.query = q]]
  /\ issued' = issued + 1
  /\ UNCHANGED <<tables, now, txOwner, view>>

\* the effect of AppProviders calls ensureSeed() directly
StartEnsureSeed(r) ==
  /\ CanStart(r)
  /\ req' = [req EXCEPT ![r] = [Idle EXCEPT !.kind = "ensureSeed", !.pc = "seed"]]
  /\ issued' = issued + 1
  /\ UNCHANGED <<tables, now, txOwner, view>>

StartPatchCandidate(r, ids, bodies) ==
  /\ CanStart(r)
  /\ \E i \in ids, b \in bodies, c \in BOOLEAN :
       req' = [req EXCEPT ![r] =
         [Idle EXCEPT !.kind = "patchCandidate", !.pc = "seed", !.id = i,
                      !.body = b, !.coin = c]]
  /\ issued' = issued + 1
  /\ UNCHANGED <<tables, now, txOwner, view>>

StartPostCandidate(r, bodies) ==
  /\ CanStart(r)
  /\ \E b \in bodies, c \in BOOLEAN :
       req' = [req EXCEPT ![r] =
         [Idle EXCEPT !.kind = "postCandidate", !.pc = "seed", !.body = b,
                      !.coin = c, !.t0 = now]]
  /\ issued' = issued + 1
  /\ UNCHANGED <<tables, now, txOwner, view>>

StartPostNote(r, ids, bodies) ==
  /\ CanStart(r)
  /\ \E i \in ids, b \in bodies :
       req' = [req EXCEPT ![r] =
         [Idle EXCEPT !.kind = "postNote", !.pc = "seed", !.id = i, !.body = b,
                      !.t0 = now]]
  /\ issued' = issued + 1
  /\ UNCHANGED <<tables, now, txOwner, view>>

StartPutAssessment(r, ids, bodies) ==
  /\ CanStart(r)
  /\ \E i \in ids, b \in bodies, c \in BOOLEAN :
       req' = [req EXCEPT ![r] =
         [Idle EXCEPT !.kind = "putAssessment", !.pc = "seed", !.id = i,
                      !.body = b, !.coin = c]]
  /\ issued' = issued + 1
  /\ UNCHANGED <<tables, now, txOwner, view>>

StartGetTimeline(r, ids) ==
  /\ CanStart(r)
  /\ \E i \in ids :
       req' = [req EXCEPT ![r] =
         [Idle EXCEPT !.kind = "getTimeline", !.pc = "seed", !.id = i]]
  /\ issued' = issued + 1
  /\ UNCHANGED <<tables, now, txOwner, view>>

StartGetAssessment(r, ids) ==
  /\ CanStart(r)
  /\ \E i \in ids :
       req' = [req EXCEPT ![r] =
         [Idle EXCEPT !.kind = "getAssessment", !.pc = "seed", !.id = i]]
  /\ issued' = issued + 1
  /\ UNCHANGED <<tables, now, txOwner, view>>

StartSubmit(r, ids, bodies) ==
  /\ CanStart(r)
  /\ \E i \in ids, b \in bodies :
       req' = [req EXCEPT ![r] =
         [Idle EXCEPT !.kind = "submit", !.pc = "seed", !.id = i, !.body = b]]
  /\ issued' = issued + 1
  /\ UNCHANGED <<tables, now, txOwner, view>>

\* (a variant that tests the note without trimming it)
NoteRejected_NoTrim(b) == ~Truthy(Field(b, "note"))

\* !note || String(note).trim() === ''
NoteRejected(b) == ~Truthy(Field(b, "note")) \/ Trim(b.note) = ""

\* the handler's synchronous code from the return of ensureSeed() up to its
\* first store operation
Proceed(r) ==
  CASE req[r].kind = "postJobs" -> [req[r] EXCEPT !.pc = "cj_last", !.at = now]
    [] req[r].kind = "patchJob" -> [req[r] EXCEPT !.pc = "pj_get"]
    [] req[r].kind = "reorder" ->
         IF req[r].coin THEN Done(r, "injected")
         ELSE [req[r] EXCEPT !.pc = "ro_read"]
    [] req[r].kind = "getJobs" -> [req[r] EXCEPT !.pc = "lj_read"]
    [] req[r].kind = "getCandidates" -> [req[r] EXCEPT !.pc = "lc_read"]
    [] req[r].kind = "postCandidate" -> [req[r] EXCEPT !.pc = "cc_count"]
    [] req[r].kind = "patchCandidate" -> [req[r] EXCEPT !.pc = "pc_get"]
    [] req[r].kind = "postNote" ->
         IF NoteRejected(req[r].body) THEN Done(r, "note")
         ELSE [req[r] EXCEPT !.pc = "nt_add", !.at = now]
    [] req[r].kind = "putAssessment" ->
         IF req[r].coin THEN Done(r, "injected")
         ELSE [req[r] EXCEPT !.pc = "pa_put", !.at = now]
    [] req[r].kind = "getTimeline" -> [req[r] EXCEPT !.pc = "tl_read"]
    [] req[r].kind = "getAssessment" -> [req[r] EXCEPT !.pc = "ga_get"]
    [] req[r].kind = "submit" -> [req[r] EXCEPT !.pc = "sb_add", !.at = now]
    [] req[r].kind = "ensureSeed" -> Done(r, "ok")

\* await ensureSeed() with the flag set: db.meta.get('seeded') and return;
\* then the handler's synchronous code up to its first store operation
EnsureSeed(r) ==
  /\ req[r].pc = "seed"
  /\ AlreadySeeded
  /\ req' = [req EXCEPT ![r] = Proceed(r)]
  /\ UNCHANGED <<tables, env, txOwner, view>>

\* time passes between two steps
Tick ==
  /\ now < MaxNow
  /\ now' = now + 1
  /\ UNCHANGED <<tables, txOwner, req, issued, view>>

\* await sleep(...); return
Sleep(r) ==
  /\ req[r].pc \in {"sleep", "failsleep", "nfsleep"}
  /\ req' = [req EXCEPT ![r] =
               Done(r, CASE req[r].pc = "sleep" -> "ok"
                         [] req[r].pc = "failsleep" -> "injected"
                         [] req[r].pc = "nfsleep" -> "notfound")]
  /\ UNCHANGED <<tables, env, txOwner, view>>

(***************************************************************************)
(* POST /jobs                                                              *)
(***************************************************************************)
PostJobs_Last(r) ==
  /\ req[r].pc = "cj_last"
  /\ JobsIdle
  /\ req' = [req EXCEPT ![r].last = LastOrder(jobs), ![r].pc = "cj_count"]
  /\ UNCHANGED <<tables, env, txOwner, view>>

PostJobs_Count(r) ==
  /\ req[r].pc = "cj_count"
  /\ JobsIdle
  /\ req' = [req EXCEPT ![r].newId = Cardinality(DOMAIN jobs) + 1, ![r].pc = "cj_slug"]
  /\ UNCHANGED <<tables, env, txOwner, view>>

\* the slug lookup, then the coin
PostJobs_Slug(r) ==
  /\ req[r].pc = "cj_slug"
  /\ JobsIdle
  /\ req' = [req EXCEPT ![r] =
       IF SlugExists(jobs, req[r].body.slug) THEN Done(r, "slug")
       ELSE IF req[r].coin THEN [req[r] EXCEPT !.pc = "failsleep"]
       ELSE [req[r] EXCEPT !.pc = "cj_add"]]
  /\ UNCHANGED <<tables, env, txOwner, view>>

NewJob(r) ==
  [id |-> req[r].newId, title |-> req[r].body.title, slug |-> req[r].body.slug,
   status |-> "active",
   tags |-> IF "tags" \in DOMAIN req[r].body THEN req[r].body.tags ELSE {},
   order |-> req[r].last + 1, createdAt |-> req[r].at, updatedAt |-> req[r].at]

\* db.jobs.add(job) throws a ConstraintError when the key is taken
PostJobs_Add(r) ==
  /\ req[r].pc = "cj_add"
  /\ JobsIdle
  /\ IF req[r].newId \in DOMAIN jobs
     THEN /\ req' = [req EXCEPT ![r] = Done(r, "thrown")]
          /\ UNCHANGED jobs
     ELSE /\ jobs' = Put(jobs, NewJob(r))
          /\ req' = [req EXCEPT ![r].pc = "sleep", ![r].wrote = TRUE]
  /\ UNCHANGED <<candidates, timelines, assessments, assessmentResponses, seeded, env, txOwner, view>>

(***************************************************************************)
(* PATCH /jobs/:id                                                         *)
(***************************************************************************)
\* { ...job, ...patch, updatedAt: Date.now() }
UpdatedJob(job, patch, t) == Spread(Spread(job, patch), [updatedAt |-> t])

\* if (Math.random() < 0.08) return 500; otherwise go on to the put
PatchJob_Coin(r, updated) ==
  IF req[r].coin THEN Done(r, "injected")
  ELSE [req[r] EXCEPT !.pc = "pj_put", !.job = updated]

\* db.jobs.get(id), the 404, the merge and the decision to look the slug up
\* (a variant that draws the coin before it looks the job up)
PatchJob_Get_CoinFirst(r) ==
  /\ req[r].pc = "pj_get"
  /\ JobsIdle
  /\ req' = [req EXCEPT ![r] =
       IF req[r].coin THEN Done(r, "injected")
       ELSE IF req[r].id \notin DOMAIN jobs THEN Done(r, "notfound")
       ELSE LET job == jobs[req[r].id]
                updated == UpdatedJob(job, req[r].body, now)
            IN  IF Truthy(Field(req[r].body, "slug")) /\ req[r].body.slug # job.slug
                THEN [req[r] EXCEPT !.pc = "pj_slug", !.job = updated]
                ELSE PatchJob_Coin(r, updated)]
  /\ UNCHANGED <<tables, env, txOwner, view>>

\* db.jobs.get(id), the 404, the merge of the patch and the slug test
PatchJob_Get(r) ==
  /\ req[r].pc = "pj_get"
  /\ JobsIdle
  /\ req' = [req EXCEPT ![r] =
       IF req[r].id \notin DOMAIN jobs THEN Done(r, "notfound")
       ELSE LET job == jobs[req[r].id]
                updated == UpdatedJob(job, req[r].body, now)
            IN  IF Truthy(Field(req[r].body, "slug")) /\ req[r].body.slug # job.slug
                THEN [req[r] EXCEPT !.pc = "pj_slug", !.job = updated]
                ELSE PatchJob_Coin(r, updated)]
  /\ UNCHANGED <<tables, env, txOwner, view>>

\* (a variant that issues the put before it draws the coin)
PatchJob_Slug_PutBeforeCoin(r) ==
  /\ req[r].pc = "pj_slug"
  /\ JobsIdle
  /\ IF SlugExists(jobs, req[r].body.slug)
     THEN /\ req' = [req EXCEPT ![r] = Done(r, "slug")]
          /\ UNCHANGED jobs
     ELSE /\ jobs' = Put(jobs, req[r].job)
          /\ req' = [req EXCEPT ![r] =
               IF req[r].coin
               THEN [Done(r, "injected") EXCEPT !.wrote = TRUE]
               ELSE [req[r] EXCEPT !.pc = "sleep", !.wrote = TRUE]]
  /\ UNCHANGED <<candidates, timelines, assessments, assessmentResponses, seeded, env, txOwner, view>>

PatchJob_Slug(r) ==
  /\ req[r].pc = "pj_slug"
  /\ JobsIdle
  /\ req' = [req EXCEPT ![r] =
       IF SlugExists(jobs, req[r].body.slug) THEN Done(r, "slug")
       ELSE PatchJob_Coin(r, req[r].job)]
  /\ UNCHANGED <<tables, env, txOwner, view>>

PatchJob_Put(r) ==
  /\ req[r].pc = "pj_put"
  /\ JobsIdle
  /\ jobs' = Put(jobs, req[r].job)
  /\ req' = [req EXCEPT ![r].pc = "sleep", ![r].wrote = TRUE]
  /\ UNCHANGED <<candidates, timelines, assessments, assessmentResponses, seeded, env, txOwner, view>>

(***************************************************************************)
(* PATCH /jobs/:id/reorder                                                 *)
(***************************************************************************)
\* others after the splice: all without the moved job, the moved job
\* inserted at toOrder
Others(all, id, toOrder) ==
  LET moved == CHOOSE i \in 1..Len(all) : all[i].id = id
  IN  Splice(Without(all, id), toOrder, all[moved])

Reorder_Read(r) ==
  /\ req[r].pc = "ro_read"
  /\ JobsIdle
  /\ LET all == OrderedJobs(jobs)
     IN  req' = [req EXCEPT ![r] =
           IF \A i \in 1..Len(all) : all[i].id # req[r].id THEN Done(r, "notfound")
           ELSE [req[r] EXCEPT !.pc = "ro_txn", !.k = 1,
                               !.all = Others(all, req[r].id, req[r].toOrder)]]
  /\ UNCHANGED <<tables, env, txOwner, view>>

\* db.jobs.update(j.id, { order: idx }): a no-op for a key that is not stored
UpdateOrder(t, id, idx) ==
  IF id \in DOMAIN t THEN [t EXCEPT ![id].order = idx] ELSE t

\* (a variant that stores the moved job's order as the request sent it)
NewOrder_AsSent(r, k) ==
  IF req[r].all[k].id = req[r].id /\ req[r].toOrder # <<>>
  THEN req[r].toOrder[1]
  ELSE k - 1

\* others.map((j, idx) => ...): the order written for others[k]
NewOrder(r, k) == k - 1

\* one update of the transaction; the transaction opens with the first and
\* commits with the last
Reorder_Update(r) ==
  /\ req[r].pc = "ro_txn"
  /\ txOwner \in (IF JobsIdle THEN {txOwner} ELSE {r})
  /\ LET k == req[r].k
     IN  /\ jobs' = UpdateOrder(jobs, req[r].all[k].id, NewOrder(r, k))
         /\ IF k < Len(req[r].all)
            THEN /\ txOwner' = r
                 /\ req' = [req EXCEPT ![r].k = k + 1, ![r].wrote = TRUE]
            ELSE /\ txOwner' = 0
                 /\ req' = [req EXCEPT ![r].pc = "sleep", ![r].wrote = TRUE]
  /\ UNCHANGED <<candidates, timelines, assessments, assessmentResponses, seeded, env, view>>

(***************************************************************************)
(* GET /jobs                                                               *)
(***************************************************************************)
\* db.jobs.toArray(), then the filters, the sort and the page
GetJobs_Read(r) ==
  /\ req[r].pc = "lj_read"
  /\ JobsIdle
  /\ req' = [req EXCEPT ![r].result = ListJobs(jobs, req[r].query),
                        ![r].pc = "sleep"]
  /\ UNCHANGED <<tables, env, txOwner, view>>

(***************************************************************************)
(* GET /candidates                                                         *)
(***************************************************************************)
\* db.candidates.toArray(), then the filters, the sort and the page
GetCandidates_Read(r) ==
  /\ req[r].pc = "lc_read"
  /\ req' = [req EXCEPT ![r].result = ListCandidates(candidates, req[r].query),
                        ![r].pc = "sleep"]
  /\ UNCHANGED <<tables, env, txOwner, view>>

(***************************************************************************)
(* PATCH /candidates/:id                                                   *)
(***************************************************************************)
\* if (Math.random() < 0.08) return 500; then the merge
\* { ...cand, ...patch, updatedAt: Date.now() } and on to the put
PatchCandidate_Coin(r, cand) ==
  IF req[r].coin THEN Done(r, "injected")
  ELSE [req[r] EXCEPT !.pc = "pc_put",
                      !.job = Spread(Spread(cand, req[r].body), [updatedAt |-> now])]

\* db.candidates.get(id), the 404 and the decision to log a stage change
PatchCandidate_Get(r) ==
  /\ req[r].pc = "pc_get"
  /\ req' = [req EXCEPT ![r] =
       IF req[r].id \notin DOMAIN candidates THEN Done(r, "notfound")
       ELSE LET cand == candidates[req[r].id]
            IN  IF Truthy(Field(req[r].body, "stage")) /\ req[r].body.stage # cand.stage
                THEN [req[r] EXCEPT !.pc = "pc_timeline", !.job = cand, !.at = now]
                ELSE PatchCandidate_Coin(r, cand)]
  /\ UNCHANGED <<tables, env, txOwner, view>>

\* db.timelines.add(event): the key generator gives the next id
AddEvent(t, e) == Append(t, Spread(e, [id |-> Len(t) + 1]))

\* await db.timelines.add({ stage_change }), then the coin
PatchCandidate_Timeline(r) ==
  /\ req[r].pc = "pc_timeline"
  /\ timelines' = AddEvent(timelines,
       [candidateId |-> req[r].id, type |-> "stage_change",
        from |-> req[r].job.stage, to |-> req[r].body.stage, at |-> req[r].at])
  /\ req' = [req EXCEPT ![r] =
               IF req[r].coin
               THEN [PatchCandidate_Coin(r, req[r].job) EXCEPT !.wrote = TRUE]
               ELSE [PatchCandidate_Coin(r, req[r].job) EXCEPT
                       !.wrote = TRUE, !.ev = Append(req[r].ev, Len(timelines) + 1)]]
  /\ UNCHANGED <<jobs, candidates, assessments, assessmentResponses, seeded, env, txOwner, view>>

PatchCandidate_Put(r) ==
  /\ req[r].pc = "pc_put"
  /\ candidates' = Put(candidates, req[r].job)
  /\ req' = [req EXCEPT ![r].pc = "sleep", ![r].wrote = TRUE]
  /\ UNCHANGED <<jobs, timelines, assessments, assessmentResponses, seeded, env, txOwner, view>>

(***************************************************************************)
(* POST /candidates                                                        *)
(***************************************************************************)
\* (a variant that takes the stage from the request body)
NewCandidate_StageFromBody(r, id, t, u) ==
  [id |-> id,
   jobId |-> IF "jobId" \in DOMAIN req[r].body THEN req[r].body.jobId ELSE 0,
   name |-> req[r].body.name, email |-> req[r].body.email,
   stage |-> IF "stage" \in DOMAIN req[r].body THEN req[r].body.stage ELSE "applied",
   createdAt |-> t, updatedAt |-> u]

\* the candidate record the handler builds; jobId 0 stands for null; t and
\* u are the two readings of Date.now(), one for createdAt and one for
\* updatedAt
NewCandidate(r, id, t, u) ==
  [id |-> id,
   jobId |-> IF "jobId" \in DOMAIN req[r].body THEN req[r].body.jobId ELSE 0,
   name |-> req[r].body.name, email |-> req[r].body.email, stage |-> "applied",
   createdAt |-> t, updatedAt |-> u]

\* (await db.candidates.count()) + 1, the record, then the coin; the clock
\* may move on between the two readings of Date.now()
PostCandidate_Count(r) ==
  /\ req[r].pc = "cc_count"
  /\ \E u \in now..MaxNow :
       /\ now' = u
       /\ LET id == Cardinality(DOMAIN candidates) + 1
          IN  req' = [req EXCEPT ![r] =
                IF req[r].coin THEN Done(r, "injected")
                ELSE [req[r] EXCEPT !.pc = "cc_add", !.newId = id,
                                    !.job = NewCandidate(r, id, now, u)]]
  /\ UNCHANGED <<tables, issued, txOwner, view>>

\* db.candidates.add(cand) throws a ConstraintError when the key is taken
PostCandidate_Add(r) ==
  /\ req[r].pc = "cc_add"
  /\ IF req[r].newId \in DOMAIN candidates
     THEN /\ req' = [req EXCEPT ![r] = Done(r, "thrown")]
          /\ UNCHANGED candidates
     ELSE /\ candidates' = Put(candidates, req[r].job)
          /\ req' = [req EXCEPT ![r].pc = "cc_timeline", ![r].wrote = TRUE,
                                ![r].at = now]
  /\ UNCHANGED <<jobs, timelines, assessments, assessmentResponses, seeded, env, txOwner, view>>

\* db.timelines.add({ stage_change, from: null, to: 'applied' })
PostCandidate_Timeline(r) ==
  /\ req[r].pc = "cc_timeline"
  /\ timelines' = AddEvent(timelines,
       [candidateId |-> req[r].newId, type |-> "stage_change",
        from |-> "null", to |-> "applied", at |-> req[r].at])
  /\ req' = [req EXCEPT ![r].pc = "sleep",
                        ![r].ev = Append(req[r].ev, Len(timelines) + 1)]
  /\ UNCHANGED <<jobs, candidates, assessments, assessmentResponses, seeded, env, txOwner, view>>

(***************************************************************************)
(* POST /candidates/:id/notes                                              *)
(***************************************************************************)
\* db.timelines.add({ candidateId: id, type: 'note', note, at: Date.now() })
PostNote_Add(r) ==
  /\ req[r].pc = "nt_add"
  /\ timelines' = AddEvent(timelines,
       [candidateId |-> req[r].id, type |-> "note", note |-> req[r].body.note,
        at |-> req[r].at])
  /\ req' = [req EXCEPT ![r].pc = "sleep", ![r].wrote = TRUE,
                        ![r].ev = Append(req[r].ev, Len(timelines) + 1)]
  /\ UNCHANGED <<jobs, candidates, assessments, assessmentResponses, seeded, env, txOwner, view>>

(***************************************************************************)
(* GET /candidates/:id/timeline                                            *)
(***************************************************************************)
\* (a variant that returns the events of every candidate)
TimelineOf_Everyone(t, id) == SortedBy(t, [k \in 1..Len(t) |-> t[k].at])

\* db.timelines.where('candidateId').equals(id).sortBy('at')
TimelineOf(t, id) ==
  LET Mine(e) == e.candidateId = id
      mine == SelectSeq(t, Mine)
  IN  SortedBy(mine, [k \in 1..Len(mine) |-> mine[k].at])

GetTimeline_Read(r) ==
  /\ req[r].pc = "tl_read"
  /\ req' = [req EXCEPT ![r].result = TimelineOf(timelines, req[r].id),
                        ![r].pc = "sleep"]
  /\ UNCHANGED <<tables, env, txOwner, view>>

(***************************************************************************)
(* GET /assessments/:jobId                                                 *)
(***************************************************************************)
\* (a variant that only finds the assessments the seed wrote)
FindAssessment_Seeded(t, jobId) ==
  IF jobId \in DOMAIN t /\ t[jobId].sections = "seed" THEN <<t[jobId]>> ELSE <<>>

\* db.assessments.get(jobId): the record, or undefined (the empty sequence)
FindAssessment(t, jobId) == IF jobId \in DOMAIN t THEN <<t[jobId]>> ELSE <<>>

\* const a = await db.assessments.get(jobId); the 404 follows the sleep
GetAssessment_Get(r) ==
  /\ req[r].pc = "ga_get"
  /\ LET a == FindAssessment(assessments, req[r].id)
     IN  req' = [req EXCEPT ![r].result = a,
                           ![r].pc = IF a = <<>> THEN "nfsleep" ELSE "sleep"]
  /\ UNCHANGED <<tables, env, txOwner, view>>

(***************************************************************************)
(* POST /assessments/:jobId/submit                                         *)
(***************************************************************************)
\* (a variant that keeps only the latest response to a job)
AddResponse_Upsert(t, e) ==
  LET Other(x) == x.jobId # e.jobId
      kept == SelectSeq(t, Other)
  IN  Append(kept, Spread(e, [id |-> Len(kept) + 1]))

\* db.assessmentResponses.add(e): the key generator numbers the response
AddResponse(t, e) == Append(t, Spread(e, [id |-> Len(t) + 1]))

\* db.assessmentResponses.add({ jobId, candidateId, responses, submittedAt })
Submit_Add(r) ==
  /\ req[r].pc = "sb_add"
  /\ assessmentResponses' = AddResponse(assessmentResponses,
       [jobId |-> req[r].id, candidateId |-> Field(req[r].body, "candidateId"),
        responses |-> Field(req[r].body, "responses"), submittedAt |-> req[r].at])
  /\ req' = [req EXCEPT ![r].pc = "sleep", ![r].wrote = TRUE]
  /\ UNCHANGED <<jobs, candidates, timelines, assessments, seeded, env, txOwner, view>>

(***************************************************************************)
(* PUT /assessments/:jobId                                                 *)
(***************************************************************************)
\* (a variant in which the fields of the body win over the route's id)
AssessmentRecord_BodyLast(body, jobId, at) ==
  Spread([id |-> jobId, jobId |-> jobId, updatedAt |-> at], body)

\* { ...body, id: jobId, jobId, updatedAt: Date.now() }
AssessmentRecord(body, jobId, at) ==
  Spread(body, [id |-> jobId, jobId |-> jobId, updatedAt |-> at])

\* db.assessments.put({ ...body, id: jobId, jobId, updatedAt: Date.now() })
PutAssessment_Put(r) ==
  /\ req[r].pc = "pa_put"
  /\ assessments' = Put(assessments, AssessmentRecord(req[r].body, req[r].id, req[r].at))
  /\ req' = [req EXCEPT ![r].pc = "sleep", ![r].wrote = TRUE]
  /\ UNCHANGED <<jobs, candidates, timelines, assessmentResponses, seeded, env, txOwner, view>>

(***************************************************************************)
(* The data ensureSeed builds                                              *)
(***************************************************************************)
\* 86_400_000 / 2
HalfDay == 43200000
\* jobs.slice(0, 3)
SeedAssessments == 3

\* faker.person.jobTitle()
SeedTitles == {"Engineer"}
\* Math.random() < 0.75 ? 'active' : 'archived'
SeedStatuses == {"active", "archived"}
\* faker.helpers.arrayElements(TAGS, { min: 1, max: 3 }): one to three
\* different tags
SeedTagSets ==
  {ts \in SUBSET {TAGS[i] : i \in 1..MaxTags} : Cardinality(ts) \in 1..3}
\* what the seed draws for one job: the title, the status, the tags and
\* faker.number.int({ min: 0, max: 1000 * 60 * 60 * 24 * 30 })
SeedJobRecs ==
  [title : SeedTitles, status : SeedStatuses, tags : SeedTagSets, age : 0..MaxJobAge]
\* what the seed draws for its jobs, job by job
SeedJobDraws == [1..SeedJobs -> SeedJobRecs]

\* the job at index i - 1 of the seed's array: id i, title, status and tags as
\* drawn, the slug from the title, order i - 1, createdAt the drawn time
\* before the seed's now
SeedJob(i, d, t) ==
  [id |-> i, title |-> d.title, slug |-> SeedSlug(d.title, i - 1),
   status |-> d.status, tags |-> d.tags, order |-> i - 1,
   createdAt |-> t - d.age, updatedAt |-> t]

SeedJobsArray(d, t) == [i \in 1..SeedJobs |-> SeedJob(i, d[i], t)]

\* faker.helpers.arrayElement(STAGES)
SeedStages == {STAGES[i] : i \in 1..MaxStages}
\* what the seed draws for one candidate: faker.helpers.arrayElement(jobs),
\* kept or dropped by Math.random() < 0.9 (jobId 0 stands for null), the stage
\* and faker.number.int({ min: 0, max: 1000 * 60 * 60 * 24 * 60 })
SeedCandRecs == [jobId : 0..SeedJobs, stage : SeedStages, age : 0..MaxCandAge]
\* what the seed draws for its candidates, candidate by candidate
SeedCandDraws == [1..SeedCands -> SeedCandRecs]

SeedCandidate(i, d, t) ==
  [id |-> i, jobId |-> d.jobId, name |-> "Ann Lee",
   email |-> "ann.lee@example.com", stage |-> d.stage,
   createdAt |-> t - d.age, updatedAt |-> t]

SeedCandsArray(d, t) == [i \in 1..SeedCands |-> SeedCandidate(i, d[i], t)]

\* the stages a timeline hops through: faker.number.int({ min: 1, max: 4 })
\* hops, each to a stage drawn without regard to the candidate's stage
SeedHops == UNION {[1..h -> SeedStages] : h \in 1..MaxHops}
\* what the seed draws for its timelines, candidate by candidate
SeedHopDraws == [1..SeedCands -> SeedHops]

\* the events of candidate c of the seed's array: applied at c.createdAt,
\* then the hops half a day apart
CandEvents(c, hops) ==
  <<[candidateId |-> c.id, type |-> "stage_change",
     from |-> "null", to |-> "applied", at |-> c.createdAt]>>
  \o [j \in 1..Len(hops) |->
        [candidateId |-> c.id, type |-> "stage_change",
         from |-> IF j = 1 THEN "applied" ELSE hops[j - 1], to |-> hops[j],
         at |-> c.createdAt + j * HalfDay]]

\* timelineEvents: the events of the candidates cs one after the other, from
\* candidate i on
RECURSIVE SeedTimelineFrom(_, _, _)
SeedTimelineFrom(cs, hd, i) ==
  IF i > Len(cs) THEN <<>>
  ELSE CandEvents(cs[i], hd[i]) \o SeedTimelineFrom(cs, hd, i + 1)

SeedTimeline(cs, hd) == SeedTimelineFrom(cs, hd, 1)

\* { id: job.id, jobId: job.id, title: `${job.title} Assessment`, sections,
\*   updatedAt: now }
SeedAssessment(i, title, t) ==
  [id |-> i, jobId |-> i, title |-> title \o " Assessment", sections |-> "seed",
   updatedAt |-> t]

SeedAssessmentsArray(titles, t) ==
  [i \in 1..Min(SeedAssessments, SeedJobs) |-> SeedAssessment(i, titles[i], t)]

(***************************************************************************)
(* ensureSeed with the flag unset                                          *)
(***************************************************************************)
\* table.bulkPut(recs): insert or replace each record by its primary key
BulkPut(t, recs) ==
  [i \in (DOMAIN t) \cup (DOMAIN recs) |-> IF i \in DOMAIN recs THEN recs[i] ELSE t[i]]

\* db.timelines.bulkAdd(evs): the key generator numbers the events on
BulkAdd(t, evs) ==
  t \o [n \in 1..Len(evs) |-> Spread(evs[n], [id |-> Len(t) + n])]

\* the flag is unset: const now = Date.now(), and the call goes on to write.
\* The arrays the seed builds are read by nobody before they are written, so
\* each is drawn in the step that writes it.
EnsureSeed_Get(r) ==
  /\ req[r].pc = "seed"
  /\ ~AlreadySeeded
  /\ req' = [req EXCEPT ![r].pc = "sd_jobs", ![r].at = now]
  /\ UNCHANGED <<tables, env, txOwner, view>>

\* (a variant that sets the flag together with the first write)
Seed_Jobs_FlagFirst(r) ==
  /\ req[r].pc = "sd_jobs"
  /\ JobsIdle
  /\ \E d \in SeedJobDraws :
       /\ jobs' = BulkPut(jobs, SeedJobsArray(d, req[r].at))
       /\ req' = [req EXCEPT ![r].pc = "sd_cands", ![r].wrote = TRUE,
                             ![r].job = [titles |-> [i \in 1..SeedJobs |-> d[i].title]]]
  /\ seeded' = TRUE
  /\ UNCHANGED <<candidates, timelines, assessments, assessmentResponses, env, txOwner, view>>

\* await db.jobs.bulkPut(jobs); the titles stay in the local array for the
\* assessments
Seed_Jobs(r) ==
  /\ req[r].pc = "sd_jobs"
  /\ JobsIdle
  /\ \E d \in SeedJobDraws :
       /\ jobs' = BulkPut(jobs, SeedJobsArray(d, req[r].at))
       /\ req' = [req EXCEPT ![r].pc = "sd_cands", ![r].wrote = TRUE,
                             ![r].job = [titles |-> [i \in 1..SeedJobs |-> d[i].title]]]
  /\ UNCHANGED <<candidates, timelines, assessments, assessmentResponses, seeded, env, txOwner, view>>

\* await db.candidates.bulkPut(candidates); the array stays for the timelines
Seed_Candidates(r) ==
  /\ req[r].pc = "sd_cands"
  /\ \E d \in SeedCandDraws :
       LET cs == SeedCandsArray(d, req[r].at)
       IN  /\ candidates' = BulkPut(candidates, cs)
           /\ req' = [req EXCEPT ![r].pc = "sd_timelines",
                                 ![r].job = [titles |-> req[r].job.titles,
                                             candidates |-> cs]]
  /\ UNCHANGED <<jobs, timelines, assessments, assessmentResponses, seeded, env, txOwner, view>>

\* await db.timelines.bulkAdd(timelineEvents): the events carry the id and
\* the createdAt of the candidates of the local array, which is not read
\* again
Seed_Timelines(r) ==
  /\ req[r].pc = "sd_timelines"
  /\ \E hd \in SeedHopDraws :
       timelines' = BulkAdd(timelines, SeedTimeline(req[r].job.candidates, hd))
  /\ req' = [req EXCEPT ![r].pc = "sd_assessments",
                        ![r].job = [titles |-> req[r].job.titles]]
  /\ UNCHANGED <<jobs, candidates, assessments, assessmentResponses, seeded, env, txOwner, view>>

\* await db.assessments.bulkPut(assessments)
Seed_Assessments(r) ==
  /\ req[r].pc = "sd_assessments"
  /\ assessments' = BulkPut(assessments,
                            SeedAssessmentsArray(req[r].job.titles, req[r].at))
  /\ req' = [req EXCEPT ![r].pc = "sd_meta"]
  /\ UNCHANGED <<jobs, candidates, timelines, assessmentResponses, seeded, env, txOwner, view>>

\* await db.meta.put({ key: 'seeded', value: true }); ensureSeed returns and
\* its caller goes on
Seed_Meta(r) ==
  /\ req[r].pc = "sd_meta"
  /\ seeded' = TRUE
  /\ req' = [req EXCEPT ![r] = Proceed(r)]
  /\ UNCHANGED <<jobs, candidates, timelines, assessments, assessmentResponses, env, txOwner, view>>

(***************************************************************************)
(* The seeded store                                                        *)
(***************************************************************************)
\* outcomes of a seed that ran at time 0: every job active and every
\* candidate with a job, or job 2 archived and candidate 1 without a job;
\* every timeline has one hop, to the candidate's stage
PlainDraw ==
  [jobs |-> [i \in 1..SeedJobs |->
               [title |-> "Engineer", status |-> "active", tags |-> {TAGS[1]},
                age |-> i % (MaxJobAge + 1)]],
   cands |-> [i \in 1..SeedCands |->
                [jobId |-> ((i - 1) % SeedJobs) + 1,
                 stage |-> STAGES[((i - 1) % MaxStages) + 1],
                 age |-> 0]]]
MixedDraw ==
  [jobs |-> [i \in 1..SeedJobs |->
               [title |-> "Engineer",
                status |-> IF i = 2 THEN "archived" ELSE "active",
                tags |-> {TAGS[1]}, age |-> i % (MaxJobAge + 1)]],
   cands |-> [i \in 1..SeedCands |->
                [jobId |-> IF i = 1 THEN 0 ELSE ((i - 1) % SeedJobs) + 1,
                 stage |-> STAGES[((i - 1) % MaxStages) + 1],
                 age |-> 0]]]
InitDraws == {PlainDraw, MixedDraw}

SeededJobsOf(d) == SeedJobsArray(d.jobs, 0)
SeededCandidatesOf(d) == SeedCandsArray(d.cands, 0)
SeededTimelinesOf(d) ==
  BulkAdd(<<>>, SeedTimeline(SeededCandidatesOf(d),
                             [i \in 1..SeedCands |-> <<d.cands[i].stage>>]))
SeededAssessmentsOf(d) ==
  SeedAssessmentsArray([i \in 1..SeedJobs |-> d.jobs[i].title], 0)

InitStore ==
  /\ \E d \in InitDraws :
       /\ jobs = SeededJobsOf(d)
       /\ candidates = SeededCandidatesOf(d)
       /\ timelines = SeededTimelinesOf(d)
       /\ assessments = SeededAssessmentsOf(d)
  /\ assessmentResponses = <<>>
  /\ seeded = TRUE
  /\ now = 0
  /\ txOwner = 0
  /\ issued = 0
  /\ resp = <<>>
  /\ calls = <<>>
  /\ query = <<>>

\* the page is closed or reloaded: the calls in flight are abandoned at
\* their await, the store stays as it is
InFlight(r) == req[r].pc \notin {"idle", "done", "killed"}
Interrupt ==
  /\ \E r \in Req : InFlight(r)
  /\ txOwner = 0
  /\ req' = [r \in Req |->
               IF InFlight(r) THEN [Idle EXCEPT !.kind = req[r].kind, !.pc = "killed"]
               ELSE req[r]]
  /\ UNCHANGED <<tables, env, txOwner, view>>

SeedInit ==
  /\ jobs = <<>>
  /\ candidates = <<>>
  /\ timelines = <<>>
  /\ assessments = <<>>
  /\ assessmentResponses = <<>>
  /\ seeded = FALSE
  /\ now \in 0..MaxNow
  /\ txOwner = 0
  /\ issued = 0
  /\ resp = <<>>
  /\ calls = <<>>
  /\ query = <<>>
  /\ req = [r \in 1..MaxReq |-> Idle]

SeedNext ==
  \/ Interrupt
  \/ \E r \in 1..MaxReq :
       \/ StartEnsureSeed(r)
       \/ StartGetTimeline(r, {1})
       \/ EnsureSeed(r)
       \/ EnsureSeed_Get(r)
       \/ Seed_Jobs(r)
       \/ Seed_Candidates(r)
       \/ Seed_Timelines(r)
       \/ Seed_Assessments(r)
       \/ Seed_Meta(r)
       \/ GetTimeline_Read(r)
       \/ Sleep(r)

SeedSpec == SeedInit /\ [][SeedNext]_vars

(***************************************************************************)
(* paginate on its own                                                     *)
(***************************************************************************)
PageItems == UNION {[1..n -> {1, 2}] : n \in 0..MaxItems}
PageNumbers == (0 - 1)..MaxItems
PageSizes == (0 - 1)..(MaxItems - 1)

\* one call of paginate: the arguments in query, the value returned in result
Paginate_Call(r) ==
  /\ req[r].pc = "call"
  /\ req' = [req EXCEPT ![r].pc = "returned",
                        ![r].result = paginate(req[r].all, req[r].query.page,
                                               req[r].query.pageSize)]
  /\ UNCHANGED <<tables, env, txOwner, view>>

PageInit ==
  /\ InitStore
  /\ \E items \in PageItems, p \in PageNumbers, ps \in PageSizes :
       req = <<[Idle EXCEPT !.kind = "paginate", !.pc = "call", !.all = items,
                           !.query = [page |-> p, pageSize |-> ps]]>>

PageNext == Paginate_Call(1)

PageSpec == PageInit /\ [][PageNext]_vars

(***************************************************************************)
(* List requests on a store that is not written                            *)
(***************************************************************************)
\* a query with the parameters that are given: each argument is <<>> for a
\* parameter that is left out or <<v>> for one that is sent
Given(name, v) == [f \in (IF v = <<>> THEN {} ELSE {name}) |-> v[1]]
Opt(V) == {<<>>} \cup {<<v>> : v \in V}

JobPageParams ==
  {<<>>,
   [page |-> 2, pageSize |-> 1, sort |-> "createdAt:desc"],
   [page |-> 2, pageSize |-> 2, sort |-> "order"],
   [sort |-> "title"]}

JobQueries ==
  {Given("search", s) @@ Given("status", st) @@ Given("tags", tg) @@ pp :
     s \in Opt({"dev", "ENG"}), st \in Opt({"archived"}),
     tg \in Opt({"urgent, remote"}), pp \in JobPageParams}

CandQueries ==
  {Given("search", s) @@ Given("stage", st) @@ pp :
     s \in Opt({"POE", "ann.lee@"}), st \in Opt({"applied"}),
     pp \in {<<>>, [page |-> 2, pageSize |-> 2]}}

\* stores the write routes lead to from the seed: a job archived, a job
\* retitled and retagged, a job created with capital letters at a later time
\* and moved to the front, a candidate created with capital letters at a
\* later time
SeededJobs == SeededJobsOf(PlainDraw)
ListJobStores ==
  {SeededJobs,
   Put(SeededJobs, UpdatedJob(SeededJobs[1], [status |-> "archived"], 0)),
   Put(SeededJobs,
       UpdatedJob(SeededJobs[2], [title |-> "Lead DEV", tags |-> {"urgent"}], 0)),
   [i \in 1..(SeedJobs + 1) |->
      IF i <= SeedJobs THEN [SeededJobs[i] EXCEPT !.order = i]
      ELSE [id |-> SeedJobs + 1, title |-> "Analyst", slug |-> "Dev-Ops",
            status |-> "active", tags |-> {}, order |-> 0,
            createdAt |-> MaxNow, updatedAt |-> MaxNow]]}
SeededCandidates == SeededCandidatesOf(PlainDraw)
ListCandStores ==
  {SeededCandidates,
   Put(SeededCandidates,
       [id |-> SeedCands + 1, jobId |-> 0, name |-> "Cy Poe",
        email |-> "Cy.Poe@Example.com", stage |-> "applied",
        createdAt |-> MaxNow, updatedAt |-> MaxNow])}

ListInit ==
  /\ jobs \in ListJobStores
  /\ candidates \in ListCandStores
  /\ timelines = SeededTimelinesOf(PlainDraw)
  /\ assessments = SeededAssessmentsOf(PlainDraw)
  /\ assessmentResponses = <<>>
  /\ seeded = TRUE
  /\ now = MaxNow
  /\ txOwner = 0
  /\ issued = 0
  /\ resp = <<>>
  /\ calls = <<>>
  /\ query = <<>>
  /\ req = <<Idle, Idle>>

ListNext ==
  \E r \in 1..2 :
    \/ StartGetJobs(r, JobQueries)
    \/ StartGetCandidates(r, CandQueries)
    \/ EnsureSeed(r)
    \/ GetJobs_Read(r)
    \/ GetCandidates_Read(r)
    \/ Sleep(r)

ListSpec == ListInit /\ [][ListNext]_vars

(***************************************************************************)
(* Overlapping requests on the Jobs table                                  *)
(***************************************************************************)
RaceSlugs == {"new"}
RaceIds == {1, 2}
RaceBodies == {[slug |-> "new"], [status |-> "archived"]}
RaceToOrders == {<<0>>, <<2>>}

Init == InitStore /\ req = [r \in 1..MaxReq |-> Idle]

Next ==
  \E r \in 1..MaxReq :
    \/ StartPostJobs(r, PostBodies(RaceSlugs))
    \/ StartPatchJob(r, RaceIds, RaceBodies)
    \/ StartReorder(r, RaceIds, RaceToOrders)
    \/ StartGetJobs(r, {<<>>})
    \/ EnsureSeed(r)
    \/ Sleep(r)
    \/ PostJobs_Last(r)
    \/ PostJobs_Count(r)
    \/ PostJobs_Slug(r)
    \/ PostJobs_Add(r)
    \/ PatchJob_Get(r)
    \/ PatchJob_Slug(r)
    \/ PatchJob_Put(r)
    \/ Reorder_Read(r)
    \/ Reorder_Update(r)
    \/ GetJobs_Read(r)

Spec == Init /\ [][Next]_vars

(***************************************************************************)
(* Overlapping creations                                                   *)
(***************************************************************************)
CreateSlugs == {"new", "newer"}
CreateCandBodies == {[name |-> "Cy Poe", email |-> "cy@example.com"]}

CreateInit == InitStore /\ req = [r \in 1..MaxReq |-> Idle]

CreateNext ==
  \E r \in 1..MaxReq :
    \/ StartPostJobs(r, PostBodies(CreateSlugs))
    \/ StartPostCandidate(r, CreateCandBodies)
    \/ EnsureSeed(r)
    \/ Sleep(r)
    \/ PostJobs_Last(r)
    \/ PostJobs_Count(r)
    \/ PostJobs_Slug(r)
    \/ PostJobs_Add(r)
    \/ PostCandidate_Count(r)
    \/ PostCandidate_Add(r)
    \/ PostCandidate_Timeline(r)

CreateSpec == CreateInit /\ [][CreateNext]_vars

\* the event loop runs every continuation that is ready: no handler waits
\* for ever at an await whose promise has settled
CreateLive == CreateSpec /\ WF_vars(CreateNext)

(***************************************************************************)
(* The Jobs page: optimistic actions and their rollback                    *)
(***************************************************************************)
\* a call of the page that awaits a fetch: an optimistic action (toggle,
\* move, drop), a load or a submit of the form.  prev is the const prev of
\* an optimistic action, query the query in the closure of submitForm and
\* body the response the fetch of a load has resolved with;
\* the fields shown, opt, alone and seq record what the page displayed when
\* the call began, what the call made it display, whether no other call of
\* the page was awaiting its fetch during this one, and the rank of its
\* request
NoCall ==
  [kind |-> "none", state |-> "none", prev |-> <<>>, shown |-> <<>>, opt |-> <<>>,
   alone |-> TRUE, seq |-> 0, id |-> 0, status |-> "", query |-> <<>>,
   body |-> <<>>]

Pending(r) == calls[r].state = "pending"

\* the call takes the lowest slot that is free and settled
PageFree(r) == Free(r) /\ ~Pending(r)
PageCanStart(r) ==
  /\ issued < MaxReq
  /\ PageFree(r)
  /\ \A q \in Req : q < r => ~PageFree(q)

\* the records of the calls when slot r begins an optimistic action
Begin(r, kind, next, id, status) ==
  [q \in DOMAIN calls |->
     IF q = r
     THEN [kind |-> kind, state |-> "pending", prev |-> resp, shown |-> resp,
           opt |-> next, alone |-> \A o \in DOMAIN calls : ~Pending(o),
           seq |-> issued + 1, id |-> id, status |-> status, query |-> <<>>,
           body |-> <<>>]
     ELSE IF Pending(q) THEN [calls[q] EXCEPT !.alone = FALSE] ELSE calls[q]]

\* the records of the calls when slot r begins a fetch that changes nothing
\* the page displays before it resolves (a load, a submit of the form)
Await(r, kind, seq, q0) ==
  [q \in DOMAIN calls |->
     IF q = r
     THEN [NoCall EXCEPT !.kind = kind, !.state = "pending", !.seq = seq,
                         !.query = q0,
                         !.alone = \A o \in DOMAIN calls \ {r} : ~Pending(o)]
     ELSE IF Pending(q) THEN [calls[q] EXCEPT !.alone = FALSE] ELSE calls[q]]

\* j.status === 'active' ? 'archived' : 'active'
Toggled(status) == IF status = "active" THEN "archived" ELSE "active"

\* toggleArchive(j): the optimistic update, then the fetch of PATCH /jobs/:id
toggleArchive(r) ==
  /\ PageCanStart(r)
  /\ \E k \in 1..Len(resp.data), c \in BOOLEAN :
       LET j == resp.data[k]
           next == [resp EXCEPT !.data =
                      [x \in 1..Len(resp.data) |->
                         IF resp.data[x].id = j.id
                         THEN [resp.data[x] EXCEPT !.status = Toggled(j.status)]
                         ELSE resp.data[x]]]
       IN  /\ resp' = next
           /\ calls' = Begin(r, "toggle", next, j.id, Toggled(j.status))
           /\ req' = [req EXCEPT ![r] =
                 [Idle EXCEPT !.kind = "patchJob", !.pc = "seed", !.id = j.id,
                              !.body = [status |-> Toggled(j.status)], !.coin = c]]
  /\ issued' = issued + 1
  /\ UNCHANGED <<tables, now, txOwner, query>>

\* the index of the job with this id in a list, counted from 0
FindIndex(list, id) == (CHOOSE i \in 1..Len(list) : list[i].id = id) - 1

\* list.map((x, i) => ({ ...x, order: base + i }))
Remapped(list, base) ==
  [i \in 1..Len(list) |-> [list[i] EXCEPT !.order = base + i - 1]]

\* toOrder: to, the destination index in the displayed list
SentToOrder(list, to) == to

\* move(j, direction): the optimistic swap in the displayed page, then the
\* fetch of PATCH /jobs/:id/reorder
move(r) ==
  /\ PageCanStart(r)
  /\ \E k \in 1..Len(resp.data), direction \in {-1, 1}, c \in BOOLEAN :
       LET j == resp.data[k]
           list == SortedBy(resp.data, [i \in 1..Len(resp.data) |-> resp.data[i].order])
           idx == FindIndex(list, j.id)
           to == idx + direction
           swapped == Splice(Without(list, j.id), <<to>>, list[idx + 1])
           next == [resp EXCEPT !.data = Remapped(swapped, 0)]
       IN  /\ ~(to < 0 \/ to >= Len(list))
           /\ resp' = next
           /\ calls' = Begin(r, "move", next, j.id, "")
           /\ req' = [req EXCEPT ![r] =
                 [Idle EXCEPT !.kind = "reorder", !.pc = "seed", !.id = j.id,
                              !.toOrder = <<SentToOrder(list, to)>>, !.coin = c]]
  /\ issued' = issued + 1
  /\ UNCHANGED <<tables, now, txOwner, query>>

\* onDrop on row idx after onDragStart on row dragIndex: the optimistic
\* reorder of the displayed page, then the fetch of PATCH /jobs/:id/reorder
onDrop(r) ==
  /\ PageCanStart(r)
  /\ \E from \in 0..(Len(resp.data) - 1), to \in 0..(Len(resp.data) - 1),
        c \in BOOLEAN :
       LET item == resp.data[from + 1]
           pageList == Splice(SubSeq(resp.data, 1, from)
                                \o SubSeq(resp.data, from + 2, Len(resp.data)),
                              <<to>>, item)
           next == [resp EXCEPT !.data = Remapped(pageList, resp.data[1].order)]
       IN  /\ from # to
           /\ resp' = next
           /\ calls' = Begin(r, "drop", next, item.id, "")
           /\ req' = [req EXCEPT ![r] =
                 [Idle EXCEPT !.kind = "reorder", !.pc = "seed", !.id = item.id,
                              !.toOrder = <<SentToOrder(resp.data, to)>>, !.coin = c]]
  /\ issued' = issued + 1
  /\ UNCHANGED <<tables, now, txOwner, query>>

\* (a variant whose rollback keeps what the page displays)
Rollback_Keep(r) == resp

\* catch { setResp(prev) }
Rollback(r) == calls[r].prev

\* the calls that change what the page displays before their fetch
Optimistic == {"toggle", "move", "drop"}

\* the fetch of an optimistic action resolves: if (!res.ok) throw ...;
\* catch: rollback
Settle(r) ==
  /\ Pending(r)
  /\ calls[r].kind \in Optimistic
  /\ req[r].pc = "done"
  /\ IF req[r].outcome = "ok"
     THEN /\ resp' = resp
          /\ calls' = [calls EXCEPT ![r].state = "kept"]
     ELSE /\ resp' = Rollback(r)
          /\ calls' = [calls EXCEPT ![r].state = "reverted"]
  /\ UNCHANGED <<tables, env, txOwner, req, query>>

\* useState(10)
JobsPageSize == 10

\* the query of the page: the status filter, page 1, sort 'order'
JobsPageQueries ==
  {Given("status", st) @@ [page |-> 1, pageSize |-> JobsPageSize, sort |-> "order"] :
     st \in Opt({"active"})}

\* the status filter changes: the query is computed again, and the effect on
\* [query] runs load(), the fetch of GET /jobs with the new query
load(r) ==
  /\ PageCanStart(r)
  /\ \E q \in JobsPageQueries :
       /\ q # query
       /\ query' = q
       /\ req' = [req EXCEPT ![r] =
             [Idle EXCEPT !.kind = "getJobs", !.pc = "seed", !.query = q]]
       /\ calls' = Await(r, "load", issued + 1, q)
  /\ issued' = issued + 1
  /\ UNCHANGED <<resp, tables, now, txOwner>>

\* the handler of a load returns from its sleep (server.ts 46-47): the
\* fetch of the page resolves with the response
fetched(r) ==
  /\ Pending(r)
  /\ calls[r].kind = "load"
  /\ req[r].pc = "sleep"
  /\ req' = [req EXCEPT ![r] = Done(r, "ok")]
  /\ calls' = [calls EXCEPT ![r].body = req[r].result]
  /\ UNCHANGED <<resp, query, tables, env, txOwner>>

\* in a later task .then((r) => r.json()).then((d) => setResp(d)) displays
\* the response
loaded(r) ==
  /\ Pending(r)
  /\ calls[r].kind = "load"
  /\ req[r].pc = "done"
  /\ resp' = calls[r].body
  /\ calls' = [calls EXCEPT ![r].state = "loaded"]
  /\ UNCHANGED <<query, tables, env, txOwner, req>>

\* the titles typed into the form
FormTitles == {"Analyst", "Lead ", " "}

\* the forms that can be submitted: after openCreate the title field sets
\* the slug to toSlug(title); after openEdit(j) of a displayed job the form
\* has the id, the slug and the tags of j, and the title is typed
Forms ==
  {[title |-> t, slug |-> SlugBase(t), tags |-> {}] : t \in FormTitles}
    \cup {[id |-> resp.data[k].id, title |-> t, slug |-> resp.data[k].slug,
            tags |-> resp.data[k].tags] :
             k \in 1..Len(resp.data), t \in FormTitles}

\* { title: form.title.trim(), slug: form.slug.trim(), tags: ... }
FormBody(form) ==
  [title |-> Trim(form.title), slug |-> Trim(form.slug), tags |-> form.tags]

\* submitForm(): the two checks of the form, then the fetch of POST /jobs,
\* or of PATCH /jobs/:id when the form has an id; the Save button is
\* disabled while saving is set
submitForm(r) ==
  /\ PageCanStart(r)
  /\ \A o \in DOMAIN calls : ~(Pending(o) /\ calls[o].kind = "submit")
  /\ \E form \in Forms, c \in BOOLEAN :
       /\ Trim(form.title) # ""
       /\ Trim(form.slug) # ""
       /\ req' = [req EXCEPT ![r] =
             IF "id" \in DOMAIN form
             THEN [Idle EXCEPT !.kind = "patchJob", !.pc = "seed", !.id = form.id,
                               !.body = FormBody(form), !.coin = c]
             ELSE [Idle EXCEPT !.kind = "postJobs", !.pc = "seed",
                               !.body = FormBody(form), !.coin = c]]
  /\ calls' = Await(r, "submit", issued + 1, query)
  /\ issued' = issued + 1
  /\ UNCHANGED <<resp, query, tables, now, txOwner>>

\* the fetch of a submit resolves: if (!res.ok) throw ...; catch:
\* setSaveError; otherwise setOpen(false); setPage(1); load(), the fetch of
\* GET /jobs with the query of the render that submitted
saved(r) ==
  /\ Pending(r)
  /\ calls[r].kind = "submit"
  /\ req[r].pc = "done"
  /\ IF req[r].outcome = "ok"
     THEN /\ req' = [req EXCEPT ![r] =
                [Idle EXCEPT !.kind = "getJobs", !.pc = "seed",
                             !.query = calls[r].query]]
          /\ calls' = Await(r, "load", calls[r].seq, calls[r].query)
     ELSE /\ req' = req
          /\ calls' = [calls EXCEPT ![r].state = "failed"]
  /\ UNCHANGED <<resp, query, tables, env, txOwner>>

JobsPageStores ==
  {SeededJobs,
   Put(SeededJobs, UpdatedJob(SeededJobs[1], [status |-> "archived"], 0))}

\* the page after load(): it displays the response of GET /jobs
JobsPageInit ==
  /\ jobs \in JobsPageStores
  /\ candidates = SeededCandidates
  /\ timelines = SeededTimelinesOf(PlainDraw)
  /\ assessments = SeededAssessmentsOf(PlainDraw)
  /\ assessmentResponses = <<>>
  /\ seeded = TRUE
  /\ now = 0
  /\ txOwner = 0
  /\ issued = 0
  /\ req = [r \in 1..MaxReq |-> Idle]
  /\ calls = [r \in 1..MaxReq |-> NoCall]
  /\ query \in JobsPageQueries
  /\ resp = ListJobs(jobs, query)

\* the return of the handler of a load is the step fetched(r), which keeps
\* the response for the page where Sleep(r) drops it
JobsPageNext ==
  \E r \in 1..MaxReq :
    \/ toggleArchive(r)
    \/ move(r)
    \/ onDrop(r)
    \/ Settle(r)
    \/ load(r)
    \/ fetched(r)
    \/ loaded(r)
    \/ submitForm(r)
    \/ saved(r)
    \/ EnsureSeed(r)
    \/ (calls[r].kind # "load" /\ Sleep(r))
    \/ PatchJob_Get(r)
    \/ PatchJob_Put(r)
    \/ Reorder_Read(r)
    \/ Reorder_Update(r)
    \/ PostJobs_Last(r)
    \/ PostJobs_Count(r)
    \/ PostJobs_Slug(r)
    \/ PostJobs_Add(r)
    \/ GetJobs_Read(r)

JobsPageSpec == JobsPageInit /\ [][JobsPageNext]_vars

(***************************************************************************)
(* One request at a time, every route, wider inputs                        *)
(***************************************************************************)
SeqSlugs == {"", "engineer-1", "new"}
SeqJobIds == 1..(SeedJobs + 1)
SeqBodies ==
  {[slug |-> s] : s \in SeqSlugs}
    \cup {[status |-> "archived"], [title |-> "Designer"], [id |-> 2]}
SeqToOrders == {<<>>} \cup {<<t>> : t \in (0 - (SeedJobs + 1))..(SeedJobs + 1)}
SeqCandIds == {1, SeedCands + 1}
SeqCandBodies == {[stage |-> "tech"], [stage |-> "applied"], [name |-> "Bo Ray"]}
SeqAssessmentIds == {1, SeedJobs + 1}
SeqAssessmentBodies ==
  {[title |-> "Quiz", sections |-> "s1"],
   [id |-> 2, jobId |-> 2, title |-> "Quiz", sections |-> "s2"]}

SeqQueries ==
  {<<>>, [sort |-> "title"], [sort |-> "createdAt:desc"],
   [status |-> "active", search |-> "nGIN"],
   [status |-> "active", search |-> "sign", pageSize |-> 2 * SeedJobs]}
SeqNoteBodies == {<<>>, [note |-> "hello"]}
SeqNewCandBodies == {[name |-> "Cy Poe", email |-> "cy@example.com"]}
SubmitBodies ==
  {<<>>, [candidateId |-> 1, responses |-> "r1"], [candidateId |-> 1, responses |-> "r2"]}

SeqInit == InitStore /\ req = <<Idle>>

SeqNext ==
  \/ StartPostJobs(1, PostBodies(SeqSlugs))
  \/ StartPatchJob(1, SeqJobIds, SeqBodies)
  \/ StartReorder(1, SeqJobIds, SeqToOrders)
  \/ StartGetJobs(1, SeqQueries)
  \/ StartGetCandidates(1, {<<>>})
  \/ StartPostCandidate(1, SeqNewCandBodies)
  \/ StartPatchCandidate(1, SeqCandIds, SeqCandBodies)
  \/ StartGetTimeline(1, SeqCandIds)
  \/ StartPostNote(1, SeqCandIds, SeqNoteBodies)
  \/ StartGetAssessment(1, SeqAssessmentIds)
  \/ StartPutAssessment(1, SeqAssessmentIds, SeqAssessmentBodies)
  \/ StartSubmit(1, SeqAssessmentIds, SubmitBodies)
  \/ EnsureSeed(1)
  \/ Sleep(1)
  \/ PostJobs_Last(1)
  \/ PostJobs_Count(1)
  \/ PostJobs_Slug(1)
  \/ PostJobs_Add(1)
  \/ PatchJob_Get(1)
  \/ PatchJob_Slug(1)
  \/ PatchJob_Put(1)
  \/ Reorder_Read(1)
  \/ Reorder_Update(1)
  \/ GetJobs_Read(1)
  \/ PatchCandidate_Get(1)
  \/ PatchCandidate_Timeline(1)
  \/ PatchCandidate_Put(1)
  \/ PutAssessment_Put(1)
  \/ GetCandidates_Read(1)
  \/ PostCandidate_Count(1)
  \/ PostCandidate_Add(1)
  \/ PostCandidate_Timeline(1)
  \/ GetTimeline_Read(1)
  \/ PostNote_Add(1)
  \/ GetAssessment_Get(1)
  \/ Submit_Add(1)

SeqSpec == SeqInit /\ [][SeqNext]_vars

(***************************************************************************)
(* A job is created, then the jobs are listed                              *)
(***************************************************************************)
\* the bodies of POST /jobs: the title "Engineer" with a fresh slug and with
\* a stored one, and a title that ends in a capital sigma
RoundTripBodies ==
  PostBodies({"new", "engineer-1"}) \cup {[title |-> "ΟΔΟΣ", slug |-> "odos"]}
RoundTripQueries ==
  {[status |-> "active", search |-> "nGIN"],
   [status |-> "active", search |-> "Σ"],
   [status |-> "archived", search |-> "ΟΔΟΣ"]}

RoundTripInit == InitStore /\ req = <<Idle>>

RoundTripNext ==
  \/ StartPostJobs(1, RoundTripBodies)
  \/ StartGetJobs(1, RoundTripQueries)
  \/ EnsureSeed(1)
  \/ Sleep(1)
  \/ PostJobs_Last(1)
  \/ PostJobs_Count(1)
  \/ PostJobs_Slug(1)
  \/ PostJobs_Add(1)
  \/ GetJobs_Read(1)

RoundTripSpec == RoundTripInit /\ [][RoundTripNext]_vars

(***************************************************************************)
(* Overlapping requests on the Candidates and Timeline tables              *)
(***************************************************************************)
CandIds == {1}
CandBodies == {[stage |-> "tech"], [stage |-> "offer"], [stage |-> "applied"],
               [name |-> "Bo Ray"]}
NewCandBodies ==
  {[name |-> "Cy Poe", email |-> "cy@example.com"],
   [name |-> "Di Fox", email |-> "di@example.com", jobId |-> 1, stage |-> "hired"]}
NoteBodies ==
  {<<>>, [note |-> ""], [note |-> " \t\f"], [note |-> " hi "], [note |-> "hello"]}

CandInit == InitStore /\ req = [r \in 1..MaxReq |-> Idle]

CandNext ==
  \/ Tick
  \/ \E r \in 1..MaxReq :
       \/ StartPostCandidate(r, NewCandBodies)
       \/ StartPatchCandidate(r, CandIds, CandBodies)
       \/ StartPostNote(r, CandIds, NoteBodies)
       \/ StartSubmit(r, CandIds, SubmitBodies)
       \/ EnsureSeed(r)
       \/ Sleep(r)
       \/ PostCandidate_Count(r)
       \/ PostCandidate_Add(r)
       \/ PostCandidate_Timeline(r)
       \/ PatchCandidate_Get(r)
       \/ PatchCandidate_Timeline(r)
       \/ PatchCandidate_Put(r)
       \/ PostNote_Add(r)
       \/ Submit_Add(r)

CandSpec == CandInit /\ [][CandNext]_vars

(***************************************************************************)
(* The timelines of several candidates                                     *)
(***************************************************************************)
\* the store after POST /candidates {"name": "Cy Poe", ...} on the seed: the
\* candidate with the next id and the first event of its timeline
TimelineCandidates ==
  Put(SeededCandidates,
      [id |-> SeedCands + 1, jobId |-> 0, name |-> "Cy Poe",
       email |-> "cy@example.com", stage |-> "applied",
       createdAt |-> 0, updatedAt |-> 0])
TimelineEvents ==
  AddEvent(SeededTimelinesOf(PlainDraw),
           [candidateId |-> SeedCands + 1, type |-> "stage_change",
            from |-> "null", to |-> "applied", at |-> 0])

\* the ids of the two candidates and an id no candidate has
TimelineIds == 1..(SeedCands + 2)
TimelineNotes == {<<>>, [note |-> "hello"]}

TimelineInit ==
  /\ jobs = SeededJobs
  /\ candidates = TimelineCandidates
  /\ timelines = TimelineEvents
  /\ assessments = SeededAssessmentsOf(PlainDraw)
  /\ assessmentResponses = <<>>
  /\ seeded = TRUE
  /\ now = 0
  /\ txOwner = 0
  /\ issued = 0
  /\ resp = <<>>
  /\ calls = <<>>
  /\ query = <<>>
  /\ req = [r \in 1..MaxReq |-> Idle]

TimelineNext ==
  \/ Tick
  \/ \E r \in 1..MaxReq :
       \/ StartGetTimeline(r, TimelineIds)
       \/ StartPostNote(r, TimelineIds, TimelineNotes)
       \/ EnsureSeed(r)
       \/ Sleep(r)
       \/ GetTimeline_Read(r)
       \/ PostNote_Add(r)

TimelineSpec == TimelineInit /\ [][TimelineNext]_vars

(***************************************************************************)
(* Properties                                                              *)
(***************************************************************************)
\* request r takes this step
StepOf(r) == req'[r].pc # req[r].pc \/ req'[r].k # req[r].k

\* request r returns in this step
Returns(r) == req[r].pc # "done" /\ req'[r].pc = "done"

SlugsDistinct ==
  \A i, j \in DOMAIN jobs : i # j => jobs[i].slug # jobs[j].slug

OrdersDense ==
  /\ {jobs[i].order : i \in DOMAIN jobs} = 0..(Cardinality(DOMAIN jobs) - 1)
  /\ \A i, j \in DOMAIN jobs : i # j => jobs[i].order # jobs[j].order

\* the store changes only in a step of a request that is marked as a writer
WroteSound ==
  [][tables' # tables => \E r \in Req : StepOf(r) /\ req'[r].wrote]_vars

\* C1: the slugs of the stored jobs are pairwise distinct in every state,
\* under any interleaving of Create Job and Patch Job requests.
C1_SlugsPairwiseDistinct == SlugsDistinct

\* C2: the order values of the stored jobs are exactly 0..n-1 in every state
\* outside a reorder's open transaction (whose partial writes no request can
\* read), under any interleaving of Create Job, Patch Job (bodies that do not
\* name order) and Reorder Job requests.
C2_OrdersDenseAlways == JobsIdle => OrdersDense

\* the order a job had in the snapshot a reorder read
OldOrder(a, id) == a[CHOOSE i \in 1..Len(a) : a[i].id = id].order

\* the snapshot a reorder read was dense
SnapshotDense(a) == {a[i].order : i \in 1..Len(a)} = 0..(Len(a) - 1)

\* a reorder whose transaction has committed
Committed(r) == req[r].kind = "reorder" /\ req[r].pc = "sleep"

\* C3: right after a Reorder Job that succeeds, whatever toOrder it carried
\* (in range, out of range, negative, missing), the order values of all
\* stored jobs are exactly 0..n-1.
C3_DenseAfterReorder ==
  \A r \in Req :
    (Committed(r)
       \/ (req[r].kind = "reorder" /\ req[r].pc = "done" /\ req[r].outcome = "ok"))
      => OrdersDense

\* a reorder has committed with toOrder beyond the end, on a table whose
\* orders were not dense when it read them
C3_Witness ==
  \E r \in Req :
    /\ Committed(r)
    /\ req[r].toOrder # <<>>
    /\ req[r].toOrder[1] > Len(req[r].all)
    /\ ~SnapshotDense(req[r].all)

\* C4: a successful Reorder Job of job X to toOrder = t, 0 <= t < n, alone
\* on a dense table: X ends at order t, the jobs between X's old and new
\* position move one slot toward the vacated position, every other job
\* keeps its order, and the others keep their relative order.
C4_MoveShiftsByOne ==
  \A r \in Req :
    (/\ Committed(r)
     /\ req[r].toOrder # <<>>
     /\ req[r].toOrder[1] \in 0..(Len(req[r].all) - 1)
     /\ SnapshotDense(req[r].all))
    => LET a == req[r].all
           x == req[r].id
           t == req[r].toOrder[1]
           p == OldOrder(a, x)
       IN  /\ jobs[x].order = t
           /\ \A i \in 1..Len(a) :
                a[i].id # x =>
                  jobs[a[i].id].order =
                    IF p < t /\ a[i].order > p /\ a[i].order <= t THEN a[i].order - 1
                    ELSE IF t < p /\ a[i].order >= t /\ a[i].order < p THEN a[i].order + 1
                    ELSE a[i].order
           /\ \A i, j \in 1..Len(a) :
                (a[i].id # x /\ a[j].id # x /\ a[i].order < a[j].order)
                  => jobs[a[i].id].order < jobs[a[j].id].order

\* a reorder has moved a job across at least one other job, in range, on a
\* dense table
C4_Witness ==
  \E r \in Req :
    /\ Committed(r)
    /\ req[r].toOrder # <<>>
    /\ req[r].toOrder[1] \in 0..(Len(req[r].all) - 1)
    /\ SnapshotDense(req[r].all)
    /\ OldOrder(req[r].all, req[r].id) + 2 <= req[r].toOrder[1]

\* the awaits that operate on db.jobs
JobsOps ==
  {"cj_last", "cj_count", "cj_slug", "cj_add", "pj_get", "pj_slug", "pj_put",
   "ro_read", "ro_txn", "lj_read"}

\* some but not all of the order writes of r's transaction are applied
Partial(r) == req[r].pc = "ro_txn" /\ req[r].k > 1

\* C5: a Reorder Job is all-or-nothing: no other request reads or writes
\* the Jobs table while some but not all of the reorder's order writes are
\* applied, and a reorder that does not succeed has applied none.
C5_ReorderAllOrNothing ==
  /\ [](\A r \in Req :
          (req[r].kind = "reorder" /\ req[r].pc = "done" /\ req[r].outcome # "ok")
            => ~req[r].wrote)
  /\ [][\A q \in Req :
          (StepOf(q) /\ req[q].pc \in JobsOps)
            => \A r \in Req : r # q => ~Partial(r)]_vars

\* a reorder is part-way through its writes while another request waits at
\* an operation on db.jobs
C5_Witness ==
  \E r, q \in Req :
    r # q /\ Partial(r) /\ req[q].pc \in (JobsOps \ {"ro_txn"})

\* a reorder that has read the ordered collection and not yet completed the
\* rewrite
InWindow(r) == req[r].pc = "ro_txn"

\* C6: between a Reorder Job's read of the ordered collection and the
\* completion of its rewrite, no other request's write to the Jobs table
\* takes effect.
C6_ReorderCriticalSection ==
  [][\A q \in Req :
      (StepOf(q) /\ jobs' # jobs) => \A r \in Req : r # q => ~InWindow(r)]_vars

\* C7: a Patch Candidate that ends in an injected 500 has left the store
\* unchanged: no candidate write and no timeline event.
C7_FailedPatchCandidateUnchanged ==
  \A r \in Req :
    (req[r].kind = "patchCandidate" /\ req[r].pc = "done"
       /\ req[r].outcome = "injected")
      => ~req[r].wrote

\* C8: a Create Job, Patch Job, Reorder Job or Put Assessment that returns
\* an injected 500 has left every table as it was.
C8_FailedWriteUnchanged ==
  \A r \in Req :
    (req[r].kind \in {"postJobs", "patchJob", "reorder", "putAssessment"}
       /\ req[r].pc = "done" /\ req[r].outcome = "injected")
      => ~req[r].wrote

\* a Patch Job has returned an injected 500
C8_Witness ==
  \E r \in Req :
    req[r].kind = "patchJob" /\ req[r].pc = "done" /\ req[r].outcome = "injected"

\* C9: a Reorder Job addressed to an id that is not stored returns 404,
\* whatever the coin, and changes nothing.
C9_ReorderUnknownIdIs404 ==
  [][\A r \in Req :
      (req[r].kind = "reorder" /\ req[r].id \notin DOMAIN jobs /\ Returns(r))
        => (req'[r].outcome = "notfound" /\ jobs' = jobs)]_vars

\* the request carries a slug that a stored job already has: a create that
\* has not stored yet, or a patch of a stored job to the slug of another one
DuplicatesStoredSlug(r) ==
  \/ /\ req[r].kind = "postJobs"
     /\ req[r].pc \in {"seed", "cj_last", "cj_count", "cj_slug"}
     /\ SlugExists(jobs, req[r].body.slug)
  \/ /\ req[r].kind = "patchJob"
     /\ req[r].pc \in {"seed", "pj_get", "pj_slug", "pj_put"}
     /\ req[r].id \in DOMAIN jobs
     /\ "slug" \in DOMAIN req[r].body
     /\ jobs[req[r].id].slug # req[r].body.slug
     /\ \E j \in DOMAIN jobs : j # req[r].id /\ jobs[j].slug = req[r].body.slug

\* C10: a Create Job or Patch Job whose slug duplicates a stored job's
\* never changes the Jobs table and returns 400; a Patch Job that repeats
\* the job's own current slug is not answered 400.
C10_DuplicateSlugIs400 ==
  [][\A r \in Req :
      /\ (StepOf(r) /\ DuplicatesStoredSlug(r))
           => (jobs' = jobs /\ (Returns(r) => req'[r].outcome = "slug"))
      /\ (req[r].kind = "patchJob" /\ Returns(r) /\ req'[r].outcome = "slug")
           => jobs[req[r].id].slug # req[r].body.slug]_vars

\* the events request r has appended to the timeline
Appended(r) == [i \in 1..Len(req[r].ev) |-> timelines[req[r].ev[i]]]

\* request r applies its patch to the candidate in this step
AppliesPatch(r) ==
  req[r].kind = "patchCandidate" /\ req[r].pc = "pc_put" /\ req'[r].pc = "sleep"

\* C11: when a Patch Candidate is applied, with A the stage stored at that
\* moment and B the stage the body names: if B is named and differs from A
\* the request has appended exactly one event {stage_change, from A, to B}
\* for the candidate, and otherwise it has appended none.
C11_OneEventPerStageChange ==
  [][\A r \in Req :
      AppliesPatch(r) =>
        LET A == candidates[req[r].id].stage
        IN  IF "stage" \in DOMAIN req[r].body /\ req[r].body.stage # A
            THEN /\ Len(req[r].ev) = 1
                 /\ Appended(r)[1].type = "stage_change"
                 /\ Appended(r)[1].candidateId = req[r].id
                 /\ Appended(r)[1].from = A
                 /\ Appended(r)[1].to = req[r].body.stage
            ELSE req[r].ev = <<>>]_vars

\* the note of the body is missing, empty or made of white space only
NoteBlank(b) ==
  "note" \notin DOMAIN b
    \/ \A i \in 1..Len(b.note) : IsSpace(SubSeq(b.note, i, i))

\* C12: an Add Candidate Note with a missing, empty or white-space-only note
\* returns 400 and appends nothing; with any other note it returns success
\* having appended exactly one event {note, the submitted text} for the
\* candidate, whose at is not earlier than the submission.
C12_NoteValidation ==
  [][\A r \in Req :
      (req[r].kind = "postNote" /\ Returns(r)) =>
        IF NoteBlank(req[r].body)
        THEN req'[r].outcome = "note" /\ ~req'[r].wrote /\ req[r].ev = <<>>
        ELSE /\ req'[r].outcome = "ok"
             /\ Len(req[r].ev) = 1
             /\ Appended(r)[1].type = "note"
             /\ Appended(r)[1].note = req[r].body.note
             /\ Appended(r)[1].candidateId = req[r].id
             /\ Appended(r)[1].at >= req[r].t0]_vars

\* a blank note has been rejected, and a note with surrounding white space
\* has been stored with a time later than its submission
C12_Witness ==
  \E r, q \in Req :
    /\ req[r].kind = "postNote" /\ req[r].pc = "done" /\ req[r].outcome = "note"
    /\ req[q].kind = "postNote" /\ req[q].pc = "sleep"
    /\ req[q].body.note = " hi "
    /\ Appended(q)[1].at > req[q].t0

\* C13: a Create Candidate's add stores exactly one new record, with stage
\* applied; its timeline step appends exactly one event {stage_change, from
\* null, to applied} with the new id; a successful request has done both,
\* and one that returns the injected failure has written nothing.
C13_CreateCandidate ==
  [][\A r \in Req :
      req[r].kind = "postCandidate" =>
        /\ (StepOf(r) /\ candidates' # candidates) =>
              /\ req[r].newId \notin DOMAIN candidates
              /\ DOMAIN candidates' = DOMAIN candidates \cup {req[r].newId}
              /\ \A i \in DOMAIN candidates : candidates'[i] = candidates[i]
              /\ candidates'[req[r].newId].id = req[r].newId
              /\ candidates'[req[r].newId].stage = "applied"
        /\ (StepOf(r) /\ timelines' # timelines) =>
              /\ Len(timelines') = Len(timelines) + 1
              /\ SubSeq(timelines', 1, Len(timelines)) = timelines
              /\ LET e == timelines'[Len(timelines')]
                 IN  /\ e.type = "stage_change" /\ e.from = "null"
                     /\ e.to = "applied" /\ e.candidateId = req[r].newId
              /\ req[r].newId \in DOMAIN candidates
        /\ (Returns(r) /\ req'[r].outcome = "ok") =>
              req[r].wrote /\ Len(req[r].ev) = 1
        /\ (Returns(r) /\ req'[r].outcome = "injected") =>
              ~req'[r].wrote /\ tables' = tables]_vars

\* a Create Candidate whose body names another stage has stored its record
\* and its event, and another Create Candidate has returned the injected
\* failure
C13_Witness ==
  \E r, q \in Req :
    /\ req[r].kind = "postCandidate" /\ req[r].pc = "sleep"
    /\ "stage" \in DOMAIN req[r].body
    /\ Len(req[r].ev) = 1
    /\ req[q].kind = "postCandidate" /\ req[q].pc = "done"
    /\ req[q].outcome = "injected"

\* the tables hold as many records as one seed writes
SeedCounts ==
  /\ Cardinality(DOMAIN jobs) = SeedJobs
  /\ Cardinality(DOMAIN candidates) = SeedCands
  /\ Cardinality(DOMAIN assessments) = Min(SeedAssessments, SeedJobs)

\* the seed events of candidate c: the ones that start its timeline
FirstEvents(c) ==
  {n \in DOMAIN timelines :
     timelines[n].candidateId = c /\ timelines[n].from = "null"}

\* C14: when overlapping ensureSeed calls have all returned (none
\* abandoned), the store has the shape a single call leaves: the seed's
\* counts of jobs, candidates and assessments and one set of seed timeline
\* events.
C14_ConcurrentSeedSafe ==
  (seeded /\ \A r \in Req : req[r].pc \in {"idle", "done"})
    => /\ SeedCounts
       /\ \A c \in DOMAIN candidates : Cardinality(FirstEvents(c)) = 1

\* the awaits of a seeding call, in the order of the code
SeedSteps == <<"sd_jobs", "sd_cands", "sd_timelines", "sd_assessments", "sd_meta">>
Seeding(r) == \E i \in 1..Len(SeedSteps) : req[r].pc = SeedSteps[i]

\* C15: with the flag set the store holds exactly the seed's numbers of
\* jobs, candidates and assessments, and an ensureSeed call that starts
\* with the flag set returns without writing to any table.
C15_SecondSeedWritesNothing ==
  /\ [](seeded => SeedCounts)
  /\ [][\A r \in Req :
          (StepOf(r) /\ req[r].pc = "seed" /\ seeded)
            => (tables' = tables /\ ~Seeding(r)' /\ req'[r].wrote = FALSE)]_vars

\* a second ensureSeed call, issued after the first one returned, has
\* returned without writing
C15_Witness ==
  /\ seeded /\ issued = 2
  /\ req[1].kind = "ensureSeed" /\ req[1].pc = "done" /\ ~req[1].wrote
  /\ req[2].pc = "idle"

\* the seed's jobs, candidates, timeline events and assessments are stored
SeedWritten ==
  /\ \A i \in 1..SeedJobs : i \in DOMAIN jobs
  /\ \A i \in 1..SeedCands : i \in DOMAIN candidates /\ FirstEvents(i) # {}
  /\ \A i \in 1..Min(SeedAssessments, SeedJobs) : i \in DOMAIN assessments

\* C16: the flag changes only from unset to set, and only when the seed's
\* four tables are written; a call that finds the flag unset starts the
\* seed from its first write and goes through every write in order; an
\* interruption leaves the flag as it is.
C16_FlagAfterSeed ==
  [][/\ (seeded' # seeded => (seeded' /\ SeedWritten))
     /\ \A r \in Req :
          /\ (StepOf(r) /\ req[r].pc = "seed" /\ ~seeded)
                => req'[r].pc \in {SeedSteps[1], "killed"}
          /\ \A i \in 1..(Len(SeedSteps) - 1) :
                (StepOf(r) /\ req[r].pc = SeedSteps[i])
                  => req'[r].pc \in {SeedSteps[i + 1], "killed"}
          /\ (StepOf(r) /\ req[r].pc = "sd_meta")
                => (seeded' \/ req'[r].pc = "killed")]_vars

\* a seed was abandoned after its last table and before the flag, and the
\* next call is seeding again
C16_Witness ==
  /\ ~seeded /\ SeedWritten
  /\ req[1].pc = "killed"
  /\ req[2].pc = "sd_cands"

\* C17: for page >= 1 and pageSize >= 1 paginate returns total = the number
\* of items, pages = the least number >= 1 of pages of pageSize that hold
\* them all, data = the items at positions (page-1)*pageSize+1 ..
\* page*pageSize that exist, in order, and the page and pageSize it was
\* given; a page beyond pages gives empty data.
C17_Paginate ==
  \A r \in Req :
    (/\ req[r].kind = "paginate" /\ req[r].pc = "returned"
     /\ req[r].query.page >= 1 /\ req[r].query.pageSize >= 1)
    => LET items == req[r].all
           page == req[r].query.page
           size == req[r].query.pageSize
           res == req[r].result
           first == (page - 1) * size
           count == IF first >= Len(items) THEN 0
                    ELSE IF first + size > Len(items) THEN Len(items) - first
                    ELSE size
       IN  /\ res.total = Len(items)
           /\ res.pages >= 1
           /\ res.pages * size >= Len(items)
           /\ (res.pages > 1 => (res.pages - 1) * size < Len(items))
           /\ res.data = [k \in 1..count |-> items[first + k]]
           /\ res.page = page /\ res.pageSize = size
           /\ (page > res.pages => res.data = <<>>)

\* paginate has returned a last page that is not full, after a full one
C17_Witness ==
  \E r \in Req :
    /\ req[r].kind = "paginate" /\ req[r].pc = "returned"
    /\ req[r].query.page >= 2 /\ req[r].query.pageSize >= 2
    /\ req[r].result.pages = req[r].query.page
    /\ Len(req[r].result.data) \in 1..(req[r].query.pageSize - 1)

\* request r holds the response of a list route
HoldsResult(r) ==
  req[r].kind \in {"getJobs", "getCandidates"} /\ req[r].pc = "sleep"

\* the response the store gives now to a list request
Response(kind, q) ==
  IF kind = "getJobs" THEN ListJobs(jobs, q) ELSE ListCandidates(candidates, q)

\* the filtered set of a list request
Filtered(kind, q) ==
  IF kind = "getJobs" THEN FilterJobs(jobs, q) ELSE FilterCandidates(candidates, q)

\* the data of pages p..last of a query, one after the other
RECURSIVE PagesFrom(_, _, _, _)
PagesFrom(kind, q, p, last) ==
  IF p > last THEN <<>>
  ELSE Response(kind, [page |-> p] @@ q).data \o PagesFrom(kind, q, p + 1, last)

\* the sort key of a record in a list request: the field order, or createdAt
\* from the latest to the earliest, or none when GET /jobs is asked for
\* another sort
SortKey(kind, q, x) ==
  IF kind = "getCandidates" \/ TextParam(q, "sort", "order") = "createdAt:desc"
  THEN 0 - x.createdAt
  ELSE IF TextParam(q, "sort", "order") = "order" THEN x.order
  ELSE 0

\* record a comes before record b in the list: by the sort key, and by the
\* primary key among records with the same sort key
Precedes(kind, q, a, b) ==
  \/ SortKey(kind, q, a) < SortKey(kind, q, b)
  \/ SortKey(kind, q, a) = SortKey(kind, q, b) /\ a.id < b.id

\* C18: the data of a list response is determined by the store and the
\* parameters, so that two requests with the same parameters on the same
\* store hold identical data: it holds, in their order, exactly the records
\* of the filtered set that have (page - 1) * pageSize up to
\* page * pageSize - 1 records of the set before them, the records counted
\* in the order of the sort key and, among equal keys, of the primary key.
\* The data of pages 1..pages, one after the other, holds every record of
\* the filtered set exactly once.
C18_ListRepeatable ==
  \A r \in Req :
    HoldsResult(r) =>
      LET kind == req[r].kind
          q == req[r].query
          res == req[r].result
          kept == Filtered(kind, q)
          set == {kept[i] : i \in 1..Len(kept)}
          first == (res.page - 1) * res.pageSize
          Rank(x) == Cardinality({y \in set : Precedes(kind, q, y, x)})
          every == PagesFrom(kind, q, 1, res.pages)
      IN  /\ \A k \in 1..Len(res.data) :
               res.data[k] \in set /\ Rank(res.data[k]) = first + k - 1
          /\ \A x \in set :
               (first <= Rank(x) /\ Rank(x) < first + res.pageSize) =>
                 \E k \in 1..Len(res.data) : res.data[k] = x
          /\ \A i, j \in 1..Len(every) : i # j => every[i].id # every[j].id
          /\ {every[i] : i \in 1..Len(every)} = set
          /\ SubSeq(every, first + 1, first + Len(res.data)) = res.data

\* two requests with the same parameters hold a page that is not the only
\* one of its list
C18_Witness ==
  \E r, o \in Req :
    /\ r # o /\ HoldsResult(r) /\ HoldsResult(o)
    /\ req[r].kind = req[o].kind /\ req[r].query = req[o].query
    /\ req[r].result.pages >= 2
    /\ req[r].result.data # <<>>
    /\ req[r].result.total % req[r].result.pageSize # 0

\* text search as the specification defines it: s, without regard to letter
\* case, is a substring of the field
MatchesText(field, s) == Includes(ToLowerCase(field), ToLowerCase(s))

\* the jobs a query asks for: every filter that is given holds
Asked(q, Match(_, _)) ==
  {i \in DOMAIN jobs :
     /\ ("status" \in DOMAIN q => jobs[i].status = q.status)
     /\ ("search" \in DOMAIN q => Match(jobs[i], q.search))
     /\ (TagsParam(q) # {} => jobs[i].tags \cap TagsParam(q) # {})}

\* job a comes before job b in the sort the query asks for
SortsBefore(q, a, b) ==
  LET key(j) == IF TextParam(q, "sort", "order") = "order" THEN j.order
                ELSE 0 - j.createdAt
  IN  key(a) < key(b) \/ (key(a) = key(b) /\ a.id < b.id)

\* job a comes before job b in the list the code sorts: a sort that is
\* neither 'order' nor 'createdAt:desc' leaves the jobs in primary-key order
CodedBefore(q, a, b) == Precedes("getJobs", q, a, b)

\* the response r holds is the page of the sorted set of the jobs asked for
ListedRight(r, Match(_, _), Before(_, _, _)) ==
  LET q == req[r].query
      res == req[r].result
      set == Asked(q, Match)
      first == (res.page - 1) * res.pageSize
      count == IF first >= Cardinality(set) THEN 0
               ELSE Min(res.pageSize, Cardinality(set) - first)
  IN  /\ res.total = Cardinality(set)
      /\ Len(res.data) = count
      /\ \A k \in 1..Len(res.data) :
           /\ res.data[k].id \in set
           /\ res.data[k] = jobs[res.data[k].id]
           /\ Cardinality({i \in set : Before(q, jobs[i], res.data[k])})
                = first + k - 1

TextMatch(j, s) == MatchesText(j.title, s) \/ MatchesText(j.slug, s)
CodedMatch(j, s) == JobMatches(j, ToLowerCase(s))

\* the filters, the sort and the page compose as the code's own text match
\* and the code's own order have it
ListJobsComposed ==
  \A r \in Req :
    (HoldsResult(r) /\ req[r].kind = "getJobs") =>
      ListedRight(r, CodedMatch, CodedBefore)

\* C19: List Jobs returns exactly the jobs that satisfy every given filter
\* (status, text search in title or slug, a tag in common), an absent filter
\* restricts nothing, total counts that set, and the page is cut from that
\* set in the order of the sort.
C19_FiltersComposed ==
  \A r \in Req :
    (HoldsResult(r) /\ req[r].kind = "getJobs") =>
      ListedRight(r, TextMatch, SortsBefore)

\* C20: with a search text s and no other filter, List Jobs counts and
\* returns exactly the jobs whose title or slug contains s without regard
\* to letter case, and List Candidates the candidates whose name or email
\* does.
C20_SearchIgnoresCase ==
  \A r \in Req :
    (HoldsResult(r) /\ DOMAIN req[r].query \cap {"status", "tags", "stage"} = {}
       /\ "search" \in DOMAIN req[r].query)
    => LET s == req[r].query.search
           hits ==
             IF req[r].kind = "getJobs"
             THEN {i \in DOMAIN jobs :
                     MatchesText(jobs[i].title, s) \/ MatchesText(jobs[i].slug, s)}
             ELSE {i \in DOMAIN candidates :
                     MatchesText(candidates[i].name, s)
                       \/ MatchesText(candidates[i].email, s)}
       IN  /\ req[r].result.total = Cardinality(hits)
           /\ \A k \in 1..Len(req[r].result.data) : req[r].result.data[k].id \in hits

(***************************************************************************)
(* The orderings of a list of jobs                                         *)
(***************************************************************************)
AscendingOrder(d) == \A a, b \in 1..Len(d) : a < b => d[a].order <= d[b].order
DescendingCreatedAt(d) ==
  \A a, b \in 1..Len(d) : a < b => d[a].createdAt >= d[b].createdAt

\* C21: the page a GET /jobs request returns is in ascending order of the
\* field order when sort is absent or "order", in descending createdAt when
\* sort is "createdAt:desc", and no response has any other ordering.
C21_TwoOrderings ==
  \A r \in Req :
    (req[r].kind = "getJobs" /\ req[r].pc = "sleep") =>
      LET d == req[r].result.data
          sort == TextParam(req[r].query, "sort", "order")
      IN  /\ sort = "order" => AscendingOrder(d)
          /\ sort = "createdAt:desc" => DescendingCreatedAt(d)
          /\ AscendingOrder(d) \/ DescendingCreatedAt(d)

(***************************************************************************)
(* A created job is visible to the list that follows                       *)
(***************************************************************************)
\* the jobs POST /jobs has added: the seed wrote the ids 1..SeedJobs
CreatedJobs == (DOMAIN jobs) \ (1..SeedJobs)

\* the response covers the whole result set
CoversAll(res) == res.page = 1 /\ res.total <= res.pageSize

\* the created job is listed when its title matches the search text as the
\* code matches it
CreatedJobListed_AsCoded ==
  \A r \in Req :
    (req[r].kind = "getJobs" /\ req[r].pc = "sleep") =>
      LET q == req[r].query
          res == req[r].result
      IN  (/\ TextParam(q, "status", "") = "active"
           /\ Truthy(TextParam(q, "search", ""))
           /\ CoversAll(res)) =>
            \A i \in CreatedJobs :
              (/\ jobs[i].status = "active"
               /\ MatchesText(jobs[i].title, q.search)) =>
                 Cardinality({k \in 1..Len(res.data) : res.data[k] = jobs[i]}) = 1

\* two characters are the same letter, case ignored, when their lower-case
\* forms, each taken by itself, are the same
SameLetter(a, b) == LowerAt(<<a>>, 1) = LowerAt(<<b>>, 1)

\* the text s is contained in the text t, letter case ignored: at some
\* position of t every character of s meets its own letter
ContainedIgnoringCase(s, t) ==
  LET u == CodeUnits(s)
      v == CodeUnits(t)
  IN  \E i \in 0..(Len(v) - Len(u)) :
        \A k \in 1..Len(u) : SameLetter(u[k], v[i + k])

\* C22: after POST /jobs has stored a job, a GET /jobs that asks for status
\* active and for a search text contained in the job's title (letter case
\* ignored), with a page that covers the result set, returns that job
\* exactly once.
C22_CreatedJobListed ==
  \A r \in Req :
    (req[r].kind = "getJobs" /\ req[r].pc = "sleep") =>
      LET q == req[r].query
          res == req[r].result
      IN  (/\ TextParam(q, "status", "") = "active"
           /\ Truthy(TextParam(q, "search", ""))
           /\ CoversAll(res)) =>
            \A i \in CreatedJobs :
              (/\ jobs[i].status = "active"
               /\ ContainedIgnoringCase(q.search, jobs[i].title)) =>
                 Cardinality({k \in 1..Len(res.data) : res.data[k] = jobs[i]}) = 1

(***************************************************************************)
(* What POST /jobs stores                                                  *)
(***************************************************************************)
\* C23: the step in which a POST /jobs request stores its job adds one record
\* under an id no stored job has, leaves every stored job as it is, and the
\* new job has status active and the largest order in the table at that
\* moment plus one.
C23_CreateJobStores ==
  [][\A r \in Req :
      (req[r].kind = "postJobs" /\ StepOf(r) /\ jobs' # jobs) =>
        LET i == req[r].newId
        IN  /\ i \notin DOMAIN jobs
            /\ DOMAIN jobs' = DOMAIN jobs \cup {i}
            /\ \A j \in DOMAIN jobs : jobs'[j] = jobs[j]
            /\ jobs'[i].id = i
            /\ jobs'[i].status = "active"
            /\ jobs'[i].order = LastOrder(jobs) + 1]_vars

(***************************************************************************)
(* The timeline of a candidate                                             *)
(***************************************************************************)
\* C24: GET /candidates/:id/timeline answers with exactly the stored events
\* whose candidateId is the id of the route, each once, in non-decreasing
\* order of the field at.
C24_TimelineOfCandidate ==
  [][\A r \in Req :
      (req[r].pc = "tl_read" /\ req'[r].pc = "sleep") =>
        LET res == req'[r].result
            mine == {n \in 1..Len(timelines) : timelines[n].candidateId = req[r].id}
        IN  /\ Len(res) = Cardinality(mine)
            /\ \A n \in mine :
                 Cardinality({k \in 1..Len(res) : res[k] = timelines[n]}) = 1
            /\ \A k \in 1..Len(res) : res[k].candidateId = req[r].id
            /\ \A a, b \in 1..Len(res) : a < b => res[a].at <= res[b].at]_vars

\* a timeline has been read while the table held events of other candidates
\* as well, and its events were not stored in the order of at
C24_Witness ==
  \E r \in Req :
    /\ req[r].kind = "getTimeline" /\ req[r].pc = "sleep"
    /\ \E n \in 1..Len(timelines) : timelines[n].candidateId # req[r].id
    /\ \E a, b \in 1..Len(req[r].result) :
         a < b /\ req[r].result[a].id > req[r].result[b].id

(***************************************************************************)
(* Tables that only grow                                                   *)
(***************************************************************************)
\* every record of s is in t at the same place, unchanged
Extends(t, s) == Len(t) >= Len(s) /\ SubSeq(t, 1, Len(s)) = s

\* C25: no step changes or removes a stored timeline event or a stored
\* assessment response; the step in which POST /assessments/:jobId/submit
\* writes adds exactly one response, also when the job and the candidate
\* already have one, and a submit that returns success has taken that step.
C25_AppendOnly ==
  [][/\ Extends(timelines', timelines)
     /\ Extends(assessmentResponses', assessmentResponses)
     /\ \A r \in Req :
          req[r].kind = "submit" =>
            /\ (req[r].pc = "sb_add" /\ StepOf(r)) =>
                  /\ Len(assessmentResponses') = Len(assessmentResponses) + 1
                  /\ LET e == assessmentResponses'[Len(assessmentResponses')]
                     IN  /\ e.jobId = req[r].id
                         /\ e.candidateId = Field(req[r].body, "candidateId")
                         /\ e.responses = Field(req[r].body, "responses")
            /\ (assessmentResponses' # assessmentResponses) =>
                  \E q \in Req : req[q].pc = "sb_add" /\ StepOf(q)
            /\ (Returns(r) /\ req'[r].outcome = "ok") => req[r].wrote]_vars

\* two responses of one candidate to one job are stored, and the submit that
\* stored the second has returned success
C25_Witness ==
  /\ \E a, b \in 1..Len(assessmentResponses) :
       /\ a < b
       /\ assessmentResponses[a].jobId = assessmentResponses[b].jobId
       /\ assessmentResponses[a].responses = "r1"
       /\ assessmentResponses[b].responses = "r2"
  /\ \E r \in Req :
       req[r].kind = "submit" /\ req[r].pc = "done" /\ req[r].outcome = "ok"

(***************************************************************************)
(* Assessments                                                             *)
(***************************************************************************)
\* C26: every stored assessment is stored under the id of its job and names
\* that job in id and jobId, so a job has at most one; a PUT replaces the
\* assessment of the job of the route with the title and sections of the
\* body, whatever id or jobId the body carries.
C26_OneAssessmentPerJob ==
  /\ \A i \in DOMAIN assessments :
       assessments[i].id = i /\ assessments[i].jobId = i
  /\ \A r \in Req :
       (req[r].kind = "putAssessment" /\ req[r].pc = "sleep") =>
         /\ req[r].id \in DOMAIN assessments
         /\ assessments[req[r].id].title = req[r].body.title
         /\ assessments[req[r].id].sections = req[r].body.sections

\* a PUT whose body names another job has stored its assessment
C26_Witness ==
  \E r \in Req :
    /\ req[r].kind = "putAssessment" /\ req[r].pc = "sleep"
    /\ "jobId" \in DOMAIN req[r].body /\ req[r].body.jobId # req[r].id
    /\ "id" \in DOMAIN req[r].body /\ req[r].body.id # req[r].id

\* C27: GET /assessments/:jobId answers 404 exactly when no assessment is
\* stored for the job, and otherwise with the assessment stored for it,
\* which is the one the last PUT for the job wrote.
C27_GetAssessment ==
  [][\A r \in Req :
      req[r].kind = "getAssessment" =>
        /\ (req[r].pc = "ga_get" /\ StepOf(r)) =>
              IF req[r].id \in DOMAIN assessments
              THEN /\ req'[r].pc = "sleep"
                   /\ req'[r].result = <<assessments[req[r].id]>>
              ELSE req'[r].pc = "nfsleep"
        /\ Returns(r) =>
              /\ req[r].pc = "nfsleep" <=> req'[r].outcome = "notfound"
              /\ req[r].pc = "sleep" <=> req'[r].outcome = "ok"
              /\ tables' = tables]_vars

\* the assessment a PUT has stored for a job the seed gave none is returned
C27_Witness ==
  \E r \in Req :
    /\ req[r].kind = "getAssessment" /\ req[r].pc = "sleep"
    /\ req[r].id = SeedJobs + 1
    /\ req[r].result[1].title = "Quiz"

(***************************************************************************)
(* Patches of records that do not exist                                    *)
(***************************************************************************)
\* C28: a PATCH /jobs/:id or PATCH /candidates/:id whose id is not in the
\* table answers 404 at the lookup, whatever the coin, also when the body
\* names a stage, and writes nothing.
C28_PatchAbsent ==
  [][\A r \in Req :
      /\ (req[r].pc = "pj_get" /\ StepOf(r) /\ req[r].id \notin DOMAIN jobs) =>
            /\ Returns(r) /\ req'[r].outcome = "notfound"
            /\ ~req[r].wrote /\ ~req'[r].wrote /\ tables' = tables
      /\ (req[r].pc = "pc_get" /\ StepOf(r) /\ req[r].id \notin DOMAIN candidates) =>
            /\ Returns(r) /\ req'[r].outcome = "notfound"
            /\ ~req[r].wrote /\ ~req'[r].wrote /\ tables' = tables]_vars

\* a patch of an absent candidate has been answered 404 (the patches issued
\* name a stage or not, and draw the failure or not)
C28_Witness ==
  \E r \in Req :
    /\ req[r].kind = "patchCandidate" /\ req[r].pc = "done"
    /\ req[r].outcome = "notfound" /\ ~req[r].wrote
    /\ timelines = SeededTimelinesOf(PlainDraw)

(***************************************************************************)
(* Injected failures                                                       *)
(***************************************************************************)
Mutating ==
  {"postJobs", "patchJob", "reorder", "postCandidate", "patchCandidate",
   "putAssessment"}

\* C29: only the six mutating operations answer with the injected failure
\* (the lists, the timeline, Get Assessment, Add Note and Submit never do),
\* and a request that answers with it has written nothing: its coin is drawn
\* before any of its writes reaches the store.
C29_InjectedFailures ==
  \A r \in Req :
    (req[r].pc = "done" /\ req[r].outcome = "injected") =>
      req[r].kind \in Mutating /\ ~req[r].wrote

\* the injected failure is answered by the six mutating operations only
InjectedOnlyMutating ==
  \A r \in Req :
    (req[r].pc = "done" /\ req[r].outcome = "injected") => req[r].kind \in Mutating

(***************************************************************************)
(* Progress of the creations                                               *)
(***************************************************************************)
\* C30: a POST /jobs or POST /candidates request that has passed its
\* validation and drawn success, and now is at its add, eventually has its
\* record stored and returns success, also when requests overlap.
C30_CreateCompletes ==
  \A r \in 1..MaxReq :
    (req[r].pc \in {"cj_add", "cc_add"}) ~>
      (req[r].pc = "done" /\ req[r].outcome = "ok" /\ req[r].wrote)

(***************************************************************************)
(* The simulated latency                                                   *)
(***************************************************************************)
\* the handler is at an await sleep(...) that is followed by its return
Sleeping(r) == req[r].pc \in {"sleep", "failsleep", "nfsleep"}

\* C31: every request returns from the simulated latency, whatever the
\* operation and whatever the outcome (success, 400, 404 or injected 500).
C31_AlwaysSleeps ==
  [][\A r \in Req : Returns(r) => Sleeping(r)]_vars

(***************************************************************************)
(* The optimistic actions of the Jobs page                                 *)
(***************************************************************************)
\* the fetch of action r resolves in this step
Settles(r) == Pending(r) /\ ~Pending(r)'

\* C32: when the request of an archive toggle, a move or a drop returns a
\* non-OK response and no other call of the page (optimistic action, load
\* or submit of the form) was in flight during it, the page displays again
\* exactly what it displayed before the optimistic change; when the
\* response is OK it keeps the optimistic change.
C32_RollbackRestores ==
  [][\A r \in Req :
      (Settles(r) /\ calls[r].kind \in Optimistic /\ calls[r].alone) =>
        IF req[r].outcome = "ok"
        THEN resp' = calls[r].opt
        ELSE resp' = calls[r].shown]_vars

\* a move that was alone has been rolled back, and the page displays what it
\* displayed before the move, which is not what the move made it display
C32_Witness ==
  \E r \in Req :
    /\ calls[r].kind = "move" /\ calls[r].state = "reverted" /\ calls[r].alone
    /\ resp = calls[r].shown /\ resp # calls[r].opt
    /\ \A q \in Req : ~Pending(q)

\* the jobs the page displays are displayed in the order of their stored order
ViewAgrees ==
  \A a, b \in 1..Len(resp.data) :
    a < b => jobs[resp.data[a].id].order < jobs[resp.data[b].id].order

\* C33: after a move or a drop that was alone has succeeded, the relative
\* order of the jobs the page displays agrees with their stored order, also
\* when the view is filtered.
C33_ViewAgreesAfterReorder ==
  [][\A r \in Req :
      (/\ Settles(r) /\ calls[r].alone /\ calls[r].kind \in {"move", "drop"}
       /\ req[r].outcome = "ok" /\ calls[r].seq = 1) => ViewAgrees']_vars

\* the page displays what action c made it display: the toggled status of
\* its job, or the jobs in the sequence the reorder left them in
Shows(c) ==
  IF c.kind = "toggle"
  THEN \E k \in 1..Len(resp.data) :
         resp.data[k].id = c.id /\ resp.data[k].status = c.status
  ELSE [k \in 1..Len(resp.data) |-> resp.data[k].id]
         = [k \in 1..Len(c.opt.data) |-> c.opt.data[k].id]

\* C39: when two actions of the page overlap, the first is rolled back and
\* the second succeeds, then after both have resolved the page still
\* displays the change of the second (checked for a second action that is an
\* archive toggle, and for a reorder that follows an archive toggle).
C39_RollbackKeepsLater ==
  \A r, q \in Req :
    (/\ calls[r].state = "reverted" /\ calls[q].state = "kept"
     /\ calls[r].seq < calls[q].seq /\ ~calls[q].alone
     /\ (calls[q].kind = "toggle" \/ calls[r].kind = "toggle")
     /\ ~(calls[q].kind = "toggle" /\ calls[r].kind = "toggle"
          /\ calls[q].id = calls[r].id)) => Shows(calls[q])

(***************************************************************************)
(* The stage of a candidate and its timeline                               *)
(***************************************************************************)
\* no request is in flight
Quiet == \A r \in Req : req[r].pc \in {"idle", "done"}

StageChanges(c) ==
  {n \in 1..Len(timelines) :
     timelines[n].candidateId = c /\ timelines[n].type = "stage_change"}

\* the most recent stage change of candidate c: the greatest at, and among
\* equal ones the one stored last
LastStageChange(c) ==
  CHOOSE n \in StageChanges(c) :
    \A o \in StageChanges(c) :
      timelines[o].at < timelines[n].at
        \/ (timelines[o].at = timelines[n].at /\ o <= n)

\* C34: once the store is seeded and no request is in flight, the most
\* recent stage change on the timeline of every candidate leads to the
\* candidate's stored stage.
C34_StageAgreesWithTimeline ==
  (seeded /\ Quiet) =>
    \A c \in DOMAIN candidates :
      StageChanges(c) # {} => timelines[LastStageChange(c)].to = candidates[c].stage

(***************************************************************************)
(* References, late seed writes and the frame of a patch                   *)
(***************************************************************************)
\* C35: every stored timeline event names a stored candidate.
C35_EventsNameCandidates ==
  \A n \in 1..Len(timelines) : timelines[n].candidateId \in DOMAIN candidates

\* C36: once the seeded flag is set, no step of an ensureSeed call changes
\* the jobs, the candidates, the timeline events or the assessments.
C36_NoSeedWriteAfterFlag ==
  [][seeded =>
       \A r \in Req :
         (Seeding(r) /\ StepOf(r)) =>
           /\ jobs' = jobs /\ candidates' = candidates
           /\ timelines' = timelines /\ assessments' = assessments]_vars

\* C37: the step in which PATCH /jobs/:id writes changes no record but the
\* one of the id of the route, and neither adds nor removes a job.
C37_PatchJobFrame ==
  [][\A r \in Req :
      (req[r].kind = "patchJob" /\ StepOf(r) /\ jobs' # jobs) =>
        /\ DOMAIN jobs' = DOMAIN jobs
        /\ \A i \in DOMAIN jobs : i # req[r].id => jobs'[i] = jobs[i]]_vars

\* C38: the step in which PATCH /jobs/:id writes changes, in the record of
\* its job, only the fields its body names and updatedAt: what another
\* request wrote to the record since this patch read it stays.
C38_PatchKeepsOtherWrites ==
  [][\A r \in Req :
      (/\ req[r].kind = "patchJob" /\ StepOf(r) /\ jobs' # jobs
       /\ req[r].id \in DOMAIN jobs /\ req[r].id \in DOMAIN jobs') =>
        \A f \in DOMAIN jobs[req[r].id] :
          f \notin (DOMAIN req[r].body) \cup {"updatedAt"} =>
            jobs'[req[r].id][f] = jobs[req[r].id][f]]_vars
====
